---- MODULE Spec2Model ----
(***************************************************************************)
(* A model of hummingbot's async call scheduler                            *)
(* (hummingbot/core/utils/async_call_scheduler.py) and of the credential   *)
(* vault that uses it (hummingbot/client/config/security.py,               *)
(* hummingbot/client/config/config_crypt.py).                              *)
(*                                                                         *)
(* The scheduler is one asyncio task (the loop of _coro_scheduler) that    *)
(* takes items off an asyncio.Queue.  An item is a handle (a future the    *)
(* caller awaits), an awaitable (a coroutine given to schedule_async_call, *)
(* or the future of a function that call_async handed to the thread pool)  *)
(* and a timeout.                                                          *)
(***************************************************************************)
EXTENDS Naturals, Sequences, FiniteSets, TLC

\* Number of items the callers submit in a run.
MaxItems == 3

Items == 1..MaxItems

\* The two ways an item is submitted: schedule_async_call(coro, ...) and
\* call_async(func, ...).
Kinds == {"coro", "func"}

\* How the awaitable of an item can end by itself: with a value, with an
\* ordinary exception, cancelled (CancelledError comes out of `await coro`
\* although the timeout did not fire), or with asyncio.InvalidStateError.
\* The future of run_in_executor ends with the function's value or exception.
Outcomes(k) ==
    IF k = "coro" THEN {"returned", "raised", "cancelled", "invalid"}
                  ELSE {"returned", "raised"}

\* Number of passwords a user can type, of random 16-byte values (salts,
\* initialisation vectors), of connectors with a secret file, of callers of
\* wait_til_decryption_done and of calls of login in a run.
NumPasswords == 2

NumNonces == 1

NumConnectors == 2

NumCallers == 1

MaxLogins == 2

Passwords == 1..NumPasswords

Nonces == 1..NumNonces

Connectors == 1..NumConnectors

Callers == 1..NumCallers

\* Number of ClientConfigAdapter objects the callers of the vault create.
NumConfigs == 1

\* Number of calls the callers of the store make in a run.
MaxCalls == 4

\* Number of connector directories under hummingbot/connector and of
\* connections in gateway_connections.json.
MaxDirs == 2

MaxConnections == 1

\* BaseSecretsManager._password is None; Security.secrets_manager is None.
NoPassword == 0

\* PASSWORD_VERIFICATION_WORD
PASSWORD_VERIFICATION_WORD == "HummingBot"

VARIABLES
    coro_queue,           \* _coro_queue: the ids of the queued items, oldest first
    coro_scheduler_task,  \* _coro_scheduler_task: "None", or the task, "alive" or "dead"
    pc,                   \* where the loop of the live task is: "get", "await", "sleep"
    cur,                  \* the loop's local fut/coro: the last item dequeued, 0 if unbound
    nitems,               \* how many items were submitted (their ids are 1..nitems)
    kind,                 \* kind[i]: how item i was submitted
    op,                   \* op[i]: state of item i's awaitable
    executing,            \* the items whose operation's code is running now
    fut,                  \* fut[i]: state of item i's handle
    dequeued,             \* history: the items in the order the loop dequeued them
    resolved,             \* history: the items in the order the loop resolved their handles
    verification,         \* the file at PASSWORD_VERIFICATION_PATH: <<>> or <<its content>>
    files,                \* files[c]: the secret file of connector c: "absent", "ok", "bad"
    secrets_manager,      \* Security.secrets_manager: the password of the manager, or NoPassword
    secure_configs,       \* Security._secure_configs: connector -> bundle, "none" if no key
    decryption_done,      \* Security._decryption_done (an asyncio.Event)
    caller,               \* caller[c]: a caller of wait_til_decryption_done
    calls,                \* call_async(decrypt_all) tasks created by login that did not run yet
    tpc,                  \* tpc[i]: where the thread that runs decrypt_all for item i is
    tfiles,               \* tfiles[i]: that thread's encrypted_files still to decrypt
    logins,               \* how many times login was called
    loginPw,              \* the password of the manager passed to the last login
    loginResult,          \* how the last login ended: "true", "false", "raise"
    objects,              \* the heap of ClientConfigAdapter objects: reference -> object
    held,                 \* the references to config objects that callers of the vault hold
    mapping,              \* the dict a caller got from all_decrypted_values
    connector_settings,   \* AllConnectorSettings: connector -> its config_keys
    last,                 \* the last call of the store and how it ended
    codec,                \* a secrets manager, a value, its encryption and a decryption
    all_connector_settings, \* AllConnectorSettings.all_connector_settings: name -> ConnectorSetting
    connector_dirs,       \* the connector directories under hummingbot/connector, in scan order
    gateway_connections,  \* the list of connection specs in gateway_connections.json
    reg,                  \* the last call of the registry, its arguments and how it ended
    throttle,             \* history: what became of the sleep that follows the last item finished
    tloaded               \* tloaded[i]: what the thread of item i loaded from a file and did not store yet

schedVars == <<coro_queue, coro_scheduler_task, pc, cur, nitems, kind, op,
               executing, fut, dequeued, resolved>>

vaultVars == <<verification, files, secrets_manager, secure_configs, decryption_done,
               caller, calls, tpc, tfiles, logins, loginPw, loginResult>>

storeVars == <<objects, held, mapping, connector_settings, last>>

codecVars == <<codec>>

registryVars == <<all_connector_settings, connector_dirs, gateway_connections, reg>>

watchVars == <<throttle, tloaded>>

\* All the variables but those of the scheduler.
clientVars == <<vaultVars, storeVars, codecVars, registryVars, watchVars>>

vars == <<schedVars, vaultVars, storeVars, codecVars, registryVars, watchVars>>

\* No item finished yet, and no thread holds a loaded bundle.
WatchInit ==
    /\ throttle = "none"
    /\ tloaded = [i \in Items |-> "none"]

\* AsyncCallScheduler.started
started == coro_scheduler_task # "None"

\* AsyncCallScheduler.__init__: an empty queue and no task.
SchedInit ==
    /\ coro_queue = <<>>
    /\ coro_scheduler_task = "None"
    /\ pc = "none"
    /\ cur = 0
    /\ nitems = 0
    /\ kind = [i \in Items |-> "none"]
    /\ op = [i \in Items |-> "none"]
    /\ executing = {}
    /\ fut = [i \in Items |-> "none"]
    /\ dequeued = <<>>
    /\ resolved = <<>>

\* A handle that takes every set_result, set_exception and cancel, also when it
\* is done.
SettleAgain(f, i, how) ==
    IF i # 0 /\ f[i] # "none" THEN [f EXCEPT ![i] = how] ELSE f

\* Future.set_result / set_exception / cancel on handle i of handles f: a handle
\* that is already done keeps its state (set_* raise InvalidStateError, which the
\* loop swallows; cancel returns False).
Settle(f, i, how) ==
    IF i # 0 /\ f[i] = "pending" THEN [f EXCEPT ![i] = how] ELSE f

\* The log of the handles the loop resolved.
Logged(log, f, i) ==
    IF i # 0 /\ f[i] = "pending" THEN Append(log, i) ELSE log

\* Cancelling the awaitable of item i (how: "timedout" by the item's timeout,
\* "stopped" by stop()): a coroutine stops running; the future of
\* run_in_executor becomes cancelled while the function goes on in its thread.
CancelOp(o, i, how) ==
    IF o[i] = "running" THEN [o EXCEPT ![i] = how] ELSE o

CancelExec(e, i) ==
    IF op[i] = "running" /\ kind[i] = "coro" THEN e \ {i} ELSE e

\* What cancelling the loop's task does to the item state: the CancelledError
\* arrives at the loop's current await; in the first try block the handler
\* cancels the local fut and re-raises, in the sleep it re-raises.
StopOp ==
    IF coro_scheduler_task = "alive" /\ pc = "await" THEN CancelOp(op, cur, "stopped") ELSE op

StopExec ==
    IF coro_scheduler_task = "alive" /\ pc = "await" THEN CancelExec(executing, cur)
    ELSE executing

StopFut ==
    IF coro_scheduler_task = "alive" /\ pc \in {"get", "await"}
    THEN Settle(fut, cur, "cancelled") ELSE fut

StopLog ==
    IF coro_scheduler_task = "alive" /\ pc \in {"get", "await"}
    THEN Logged(resolved, fut, cur) ELSE resolved

\* stop()
Stop ==
    /\ coro_scheduler_task # "None"
    /\ coro_scheduler_task' = "None"
    /\ pc' = "none"
    /\ op' = StopOp
    /\ executing' = StopExec
    /\ fut' = StopFut
    /\ resolved' = StopLog
    /\ UNCHANGED <<coro_queue, cur, nitems, kind, dequeued>>

\* start(): stops the task there is, then creates a new one, whose loop starts
\* at the top with its locals unbound.
Start ==
    /\ coro_scheduler_task' = "alive"
    /\ pc' = "get"
    /\ cur' = 0
    /\ op' = IF started THEN StopOp ELSE op
    /\ executing' = IF started THEN StopExec ELSE executing
    /\ fut' = IF started THEN StopFut ELSE fut
    /\ resolved' = IF started THEN StopLog ELSE resolved
    /\ UNCHANGED <<coro_queue, nitems, kind, dequeued>>

\* A submission that starts the operation at once, whatever its kind.
EnqueueEager(i, k) ==
    /\ nitems' = i
    /\ kind' = [kind EXCEPT ![i] = k]
    /\ fut' = [fut EXCEPT ![i] = "pending"]
    /\ coro_queue' = Append(coro_queue, i)
    /\ op' = [op EXCEPT ![i] = "running"]
    /\ executing' = executing \cup {i}
    /\ IF coro_scheduler_task = "None"
       THEN coro_scheduler_task' = "alive" /\ pc' = "get" /\ cur' = 0
       ELSE UNCHANGED <<coro_scheduler_task, pc, cur>>
    /\ UNCHANGED <<dequeued, resolved>>

\* schedule_async_call up to its `await fut`, for item i of kind k: create the
\* handle, enqueue, start the loop if there is no task.  call_async has handed
\* the function to the thread pool before (run_in_executor), where it starts
\* at once; a coroutine starts when it is first awaited.
Enqueue(i, k) ==
    /\ nitems' = i
    /\ kind' = [kind EXCEPT ![i] = k]
    /\ fut' = [fut EXCEPT ![i] = "pending"]
    /\ coro_queue' = Append(coro_queue, i)
    /\ op' = [op EXCEPT ![i] = IF k = "func" THEN "running" ELSE "idle"]
    /\ executing' = IF k = "func" THEN executing \cup {i} ELSE executing
    /\ IF coro_scheduler_task = "None"
       THEN coro_scheduler_task' = "alive" /\ pc' = "get" /\ cur' = 0
       ELSE UNCHANGED <<coro_scheduler_task, pc, cur>>
    /\ UNCHANGED <<dequeued, resolved>>

\* A caller submits an operation.
Submit ==
    /\ nitems < MaxItems
    /\ \E k \in Kinds : Enqueue(nitems + 1, k)

\* The caller that awaits handle i is cancelled, which cancels the handle.
CallerCancel ==
    \E i \in 1..nitems :
        /\ fut[i] = "pending"
        /\ fut' = [fut EXCEPT ![i] = "abandoned"]
        /\ UNCHANGED <<coro_queue, coro_scheduler_task, pc, cur, nitems, kind, op,
                       executing, dequeued, resolved>>

\* A queue that hands out its newest item first.
QueueGetNewest(q) == [item |-> q[Len(q)], rest |-> SubSeq(q, 1, Len(q) - 1)]

\* asyncio.Queue.get on a queue q that is not empty: the oldest item, and the
\* queue without it.
QueueGet(q) == [item |-> Head(q), rest |-> Tail(q)]

\* The loop: `await coro_queue.get()`, then entering `async with timeout` and
\* `await coro`, which starts a coroutine.
Get ==
    /\ coro_scheduler_task = "alive"
    /\ pc = "get"
    /\ coro_queue # <<>>
    /\ LET i == QueueGet(coro_queue).item IN
        /\ cur' = i
        /\ coro_queue' = QueueGet(coro_queue).rest
        /\ dequeued' = Append(dequeued, i)
        /\ op' = IF op[i] = "idle" THEN [op EXCEPT ![i] = "running"] ELSE op
        /\ executing' = IF op[i] = "idle" THEN executing \cup {i} ELSE executing
    /\ pc' = "await"
    /\ UNCHANGED <<coro_scheduler_task, nitems, kind, fut, resolved>>

\* The operation of item i ends by itself.  A coroutine runs only while the loop
\* awaits it.
OpFinish ==
    \E i \in executing :
        /\ op[i] = "running"
        /\ \E o \in Outcomes(kind[i]) : op' = [op EXCEPT ![i] = o]
        /\ executing' = executing \ {i}
        /\ UNCHANGED <<coro_queue, coro_scheduler_task, pc, cur, nitems, kind, fut,
                       dequeued, resolved>>

\* A function whose run_in_executor future was cancelled (by a timeout or by
\* stop()) comes to its end in its thread.
ThreadFinish ==
    \E i \in executing :
        /\ op[i] \in {"timedout", "stopped"}
        /\ executing' = executing \ {i}
        /\ UNCHANGED <<coro_queue, coro_scheduler_task, pc, cur, nitems, kind, op, fut,
                       dequeued, resolved>>

\* A loop that goes back to the queue without the sleep.
DeliverNoSleep(o) ==
    /\ fut' = CASE o = "returned" -> Settle(fut, cur, "value")
                [] o = "raised" -> Settle(fut, cur, "error")
                [] o = "cancelled" -> Settle(fut, cur, "cancelled")
                [] OTHER -> fut
    /\ resolved' = IF o = "invalid" THEN resolved ELSE Logged(resolved, fut, cur)
    /\ IF o = "cancelled"
       THEN coro_scheduler_task' = "dead" /\ pc' = "none"
       ELSE coro_scheduler_task' = coro_scheduler_task /\ pc' = "get"

\* The loop after `await coro` ended with outcome o: fut.set_result on a value;
\* fut.set_exception on an exception; nothing on InvalidStateError; on
\* CancelledError fut.cancel() and re-raise, which ends the task while
\* _coro_scheduler_task still refers to it.
Deliver(o) ==
    /\ fut' = CASE o = "returned" -> Settle(fut, cur, "value")
                [] o = "raised" -> Settle(fut, cur, "error")
                [] o = "cancelled" -> Settle(fut, cur, "cancelled")
                [] OTHER -> fut
    /\ resolved' = IF o = "invalid" THEN resolved ELSE Logged(resolved, fut, cur)
    /\ IF o = "cancelled"
       THEN coro_scheduler_task' = "dead" /\ pc' = "none"
       ELSE coro_scheduler_task' = coro_scheduler_task /\ pc' = "sleep"

Resolve ==
    /\ coro_scheduler_task = "alive"
    /\ pc = "await"
    /\ op[cur] \in {"returned", "raised", "cancelled", "invalid"}
    /\ Deliver(op[cur])
    /\ UNCHANGED <<coro_queue, cur, nitems, kind, op, executing, dequeued>>

\* A timeout whose CancelledError is not turned into a TimeoutError: the loop's
\* CancelledError handler cancels the handle and re-raises.
OnTimeoutCancelled ==
    /\ fut' = Settle(fut, cur, "cancelled")
    /\ resolved' = Logged(resolved, fut, cur)
    /\ coro_scheduler_task' = "dead"
    /\ pc' = "none"

\* The timeout of async_timeout fires while the loop awaits the operation: it
\* cancels the task, which cancels the awaitable; __aexit__ turns the
\* CancelledError into asyncio.TimeoutError, an Exception, which the loop sets
\* on the handle.
OnTimeout ==
    /\ fut' = Settle(fut, cur, "timeout")
    /\ resolved' = Logged(resolved, fut, cur)
    /\ UNCHANGED coro_scheduler_task
    /\ pc' = "sleep"

Timeout ==
    /\ coro_scheduler_task = "alive"
    /\ pc = "await"
    /\ op[cur] = "running"
    /\ op' = CancelOp(op, cur, "timedout")
    /\ executing' = CancelExec(executing, cur)
    /\ OnTimeout
    /\ UNCHANGED <<coro_queue, cur, nitems, kind, dequeued>>

\* `await asyncio.sleep(interval)` ends.
Sleep ==
    /\ coro_scheduler_task = "alive"
    /\ pc = "sleep"
    /\ pc' = "get"
    /\ UNCHANGED <<coro_queue, coro_scheduler_task, cur, nitems, kind, op, executing,
                   fut, dequeued, resolved>>

----------------------------------------------------------------------------
(***************************************************************************)
(* The cipher codec (config_crypt.py).  Key derivation, AES-CTR and keccak *)
(* are modelled as free constructors: two derived keys, ciphertexts or     *)
(* digests are equal only if they were built from equal arguments.         *)
(***************************************************************************)

\* A key derivation that does not depend on the password.
DerivedKeyOfSalt(password, salt) == <<<<"utf-8", 0>>, salt>>

\* _pbkdf2_hash(password, salt, ...): the derived key of DKLEN bytes.
DerivedKey(password, salt) == <<password, salt>>

\* derived_key[:16] (half "lo", the encryption key) and derived_key[16:32]
\* (half "hi", the key of the MAC).
KeyHalf(derived_key, half) == <<derived_key, half>>

\* encrypt_aes_ctr(message, key, iv)
EncryptAesCtr(message, key, iv) == [key |-> key, iv |-> iv, msg |-> message]

\* AES-CTR decryption: the message comes back under the same key and iv only.
DecryptAesCtr(ciphertext, key, iv) ==
    IF ciphertext.key = key /\ ciphertext.iv = iv THEN ciphertext.msg
    ELSE <<"bytes", "garbage">>

\* str.encode(): the UTF-8 bytes of a string.
Utf8Encode(str) == <<"utf-8", str>>

\* bytes.decode(): the string of UTF-8 bytes, UnicodeDecodeError (a ValueError)
\* for other bytes.
Utf8Decode(bytes) ==
    IF bytes[1] = "utf-8" THEN [status |-> "ok", value |-> bytes[2]]
    ELSE [status |-> "error", value |-> ""]

\* int_to_big_endian(value): the bytes of a number, without leading zero bytes.
RECURSIVE IntToBigEndian(_)
IntToBigEndian(n) ==
    IF n < 256 THEN <<n>> ELSE IntToBigEndian(n \div 256) \o <<n % 256>>

\* big_endian_to_int(value)
RECURSIVE BigEndianToInt(_)
BigEndianToInt(b) ==
    IF b = <<>> THEN 0
    ELSE 256 * BigEndianToInt(SubSeq(b, 1, Len(b) - 1)) + b[Len(b)]

\* A digest of the key alone.
KeccakOfKey(mac_key, ciphertext) == <<"keccak", mac_key>>

\* keccak(derived_key[16:32] + ciphertext)
Keccak(mac_key, ciphertext) == <<"keccak", mac_key, ciphertext>>

\* A keyfile whose mac is keyed with the first half of the derived key, the
\* half that encrypts.
CreateV3KeyfileJsonOneKey(message, password, salt, iv) ==
    LET derived_key == DerivedKey(password, salt)
        ciphertext == EncryptAesCtr(message, KeyHalf(derived_key, "lo"), iv)
    IN  [crypto |-> [cipher |-> "aes-128-ctr",
                     cipherparams |-> [iv |-> IntToBigEndian(iv)],
                     ciphertext |-> ciphertext,
                     kdf |-> "pbkdf2",
                     kdfparams |-> [salt |-> salt],
                     mac |-> Keccak(KeyHalf(derived_key, "lo"), ciphertext)],
         version |-> 3,
         alias |-> ""]

\* _create_v3_keyfile_json(message_to_encrypt, password) with the random salt
\* and iv it draws (iv is the number big_endian_to_int made of the random
\* bytes).
CreateV3KeyfileJson(message, password, salt, iv) ==
    LET derived_key == DerivedKey(password, salt)
        ciphertext == EncryptAesCtr(message, KeyHalf(derived_key, "lo"), iv)
    IN  [crypto |-> [cipher |-> "aes-128-ctr",
                     cipherparams |-> [iv |-> IntToBigEndian(iv)],
                     ciphertext |-> ciphertext,
                     kdf |-> "pbkdf2",
                     kdfparams |-> [salt |-> salt],
                     mac |-> Keccak(KeyHalf(derived_key, "hi"), ciphertext)],
         version |-> 3,
         alias |-> ""]

\* encrypt_secret_value of a manager with a password: the keyfile of the
\* encoded value under the encoded password, as JSON text, hex-encoded.
EncryptSecretValue(password, value, salt, iv) ==
    [encoding |-> "hex",
     json |-> CreateV3KeyfileJson(Utf8Encode(value), Utf8Encode(password), salt, iv)]

\* Account.decrypt(keyfile_json, password): derive the key with the keyfile's
\* own salt, compare the MAC, and only then decrypt.
AccountDecrypt(json, password) ==
    LET derived_key == DerivedKey(Utf8Encode(password), json.crypto.kdfparams.salt)
        ciphertext == json.crypto.ciphertext
    IN  IF Keccak(KeyHalf(derived_key, "hi"), ciphertext) # json.crypto.mac
        THEN [status |-> "MAC mismatch", value |-> <<>>]
        ELSE [status |-> "ok",
              value |-> DecryptAesCtr(ciphertext, KeyHalf(derived_key, "lo"),
                                      BigEndianToInt(json.crypto.cipherparams.iv))]

\* decrypt_secret_value(attr, value): a ValueError other than "MAC mismatch"
\* without a password and for a value that unhexlify cannot decode.
DecryptSecretValue(password, value) ==
    IF password = NoPassword THEN [status |-> "error", value |-> ""]
    ELSE IF value.encoding # "hex" THEN [status |-> "error", value |-> ""]
    ELSE LET d == AccountDecrypt(value.json, password)
         IN  IF d.status = "ok" THEN Utf8Decode(d.value)
             ELSE [status |-> d.status, value |-> ""]

\* A validation that takes every failure of the decryption for a wrong password.
ValidatePasswordLenient(password, file) ==
    IF file = <<>> THEN "raise"
    ELSE LET d == DecryptSecretValue(password, file[1])
         IN  IF d.status = "ok" /\ d.value = PASSWORD_VERIFICATION_WORD
             THEN "true" ELSE "false"

\* A validation that does not look at the outcome of the decryption.
ValidatePasswordAny(password, file) ==
    IF file = <<>> THEN "raise"
    ELSE LET d == DecryptSecretValue(password, file[1])
         IN  IF d.status = "error" THEN "raise" ELSE "true"

\* validate_password(secrets_manager) on the verification file: "true" or
\* "false" when it returns, "raise" when open() fails or when the decryption
\* raises anything but ValueError("MAC mismatch").
ValidatePassword(password, file) ==
    IF file = <<>> THEN "raise"
    ELSE LET d == DecryptSecretValue(password, file[1])
         IN  CASE d.status = "ok" ->
                    IF d.value = PASSWORD_VERIFICATION_WORD THEN "true" ELSE "false"
               [] d.status = "MAC mismatch" -> "false"
               [] OTHER -> "raise"

\* No value encrypted yet, by a manager without a password.
NoCodec ==
    [password |-> NoPassword, value |-> "", encrypted |-> <<>>, intact |-> TRUE,
     decrypted |-> <<>>]

\* What damage makes of the content of an encrypted file: text that is no hex,
\* a changed mac, a changed ciphertext.
Damaged(content) ==
    { [content EXCEPT !.encoding = "corrupt"],
      [content EXCEPT !.json.crypto.mac[1] = "changed"],
      [content EXCEPT !.json.crypto.ciphertext.msg = <<"bytes", "changed">>] }

----------------------------------------------------------------------------
(***************************************************************************)
(* The credential vault (security.py).                                     *)
(***************************************************************************)

\* The class attributes of Security, no call of login yet, and the files on
\* disk as given: the secret files and the verification file.
VaultInit(disk, verification_file) ==
    /\ verification = verification_file
    /\ files = disk
    /\ secrets_manager = NoPassword
    /\ secure_configs = [c \in Connectors |-> "none"]
    /\ decryption_done = FALSE
    /\ caller = [c \in Callers |-> "idle"]
    /\ calls = 0
    /\ tpc = [i \in Items |-> "none"]
    /\ tfiles = [i \in Items |-> <<>>]
    /\ logins = 0
    /\ loginPw = NoPassword
    /\ loginResult = "none"

\* store_password_verification(secrets_manager) for a manager with password w:
\* the file it writes, <<>> being no file.
StorePasswordVerification(w, salt, iv) ==
    <<EncryptSecretValue(w, PASSWORD_VERIFICATION_WORD, salt, iv)>>

\* The verification files that store_password_verification can have written.
StoredVerifications ==
    {StorePasswordVerification(w, salt, iv) : w \in Passwords, salt \in Nonces, iv \in Nonces}

\* The verification files a run can find: none (the first run), a stored one,
\* a stored one that was damaged.
VerificationFiles ==
    {<<>>} \cup StoredVerifications
           \cup UNION {{<<d>> : d \in Damaged(v[1])} : v \in StoredVerifications}

\* A login that installs the manager before it validates the password.
LoginInstallFirst(w) ==
    LET r == ValidatePassword(w, verification) IN
    /\ loginResult' = r
    /\ loginPw' = w
    /\ secrets_manager' = IF r = "raise" THEN secrets_manager ELSE w
    /\ calls' = IF r = "true" THEN calls + 1 ELSE calls

\* Security.login(secrets_manager) for a manager with password w: on a valid
\* password install the manager and create the task that runs
\* call_async(decrypt_all, timeout_seconds=30).
LoginBody(w) ==
    LET r == ValidatePassword(w, verification) IN
    /\ loginResult' = r
    /\ loginPw' = w
    /\ secrets_manager' = IF r = "true" THEN w ELSE secrets_manager
    /\ calls' = IF r = "true" THEN calls + 1 ELSE calls

Login ==
    /\ logins < MaxLogins
    /\ logins' = logins + 1
    /\ \E w \in Passwords \cup {NoPassword} : LoginBody(w)
    /\ UNCHANGED <<verification, files, secure_configs, decryption_done, caller, tpc,
                   tfiles>>
    /\ UNCHANGED schedVars

\* The task created by login runs call_async up to `await fut`: run_in_executor
\* starts decrypt_all on a thread of the pool, schedule_async_call enqueues its
\* future.
RunCall ==
    /\ calls > 0
    /\ nitems < MaxItems
    /\ calls' = calls - 1
    /\ Enqueue(nitems + 1, "func")
    /\ tpc' = [tpc EXCEPT ![nitems + 1] = "clear_cache"]
    /\ UNCHANGED <<verification, files, secrets_manager, secure_configs,
                   decryption_done, caller, tfiles, logins, loginPw, loginResult>>

\* wait_til_decryption_done(), called after a login that returned True (as
\* quick_start does): Event.wait returns at once if the event is set.
WaitTilDecryptionDone ==
    /\ secrets_manager # NoPassword
    /\ \E c \in Callers :
        /\ caller[c] = "idle"
        /\ caller' = [caller EXCEPT
                        ![c] = IF decryption_done THEN "returned" ELSE "waiting"]
    /\ UNCHANGED <<verification, files, secrets_manager, secure_configs,
                   decryption_done, calls, tpc, tfiles, logins, loginPw, loginResult>>
    /\ UNCHANGED schedVars

\* list_connector_configs(): the connectors that have a secret file, in the
\* order of the listing.
RECURSIVE ListFrom(_, _)
ListFrom(disk, c) ==
    IF c > NumConnectors THEN <<>>
    ELSE IF disk[c] = "absent" THEN ListFrom(disk, c + 1)
    ELSE <<c>> \o ListFrom(disk, c + 1)

ListConnectorConfigs(disk) == ListFrom(disk, 1)

\* load_connector_config_map_from_file(file_path): the decrypted bundle of the
\* file, or a failure (an integrity failure of the file's secrets, no file).
LoadConnectorConfigMapFromFile(content) ==
    IF content \in {"ok", "edited"} THEN [ok |-> TRUE, bundle |-> content]
    ELSE [ok |-> FALSE, bundle |-> "none"]

\* decrypt_all, line by line, on the thread of item i.
\* cls._secure_configs.clear()
DecryptClearConfigs ==
    \E i \in Items :
        /\ tpc[i] = "clear_cache"
        /\ secure_configs' = [c \in Connectors |-> "none"]
        /\ tpc' = [tpc EXCEPT ![i] = "clear_event"]
        /\ UNCHANGED <<verification, files, secrets_manager, decryption_done, caller,
                       calls, tfiles, logins, loginPw, loginResult>>
        /\ UNCHANGED schedVars

\* cls._decryption_done.clear()
DecryptClearEvent ==
    \E i \in Items :
        /\ tpc[i] = "clear_event"
        /\ decryption_done' = FALSE
        /\ tpc' = [tpc EXCEPT ![i] = "list"]
        /\ UNCHANGED <<verification, files, secrets_manager, secure_configs, caller,
                       calls, tfiles, logins, loginPw, loginResult>>
        /\ UNCHANGED schedVars

\* encrypted_files = list_connector_configs()
DecryptList ==
    \E i \in Items :
        /\ tpc[i] = "list"
        /\ tfiles' = [tfiles EXCEPT ![i] = ListConnectorConfigs(files)]
        /\ tpc' = [tpc EXCEPT ![i] = "load"]
        /\ UNCHANGED <<verification, files, secrets_manager, secure_configs,
                       decryption_done, caller, calls, logins, loginPw, loginResult>>
        /\ UNCHANGED schedVars

\* A thread whose outcome replaces the cancellation of its future.
ThreadEndDelivers(i, o) ==
    /\ op' = [op EXCEPT ![i] = o]
    /\ executing' = executing \ {i}
    /\ UNCHANGED <<coro_queue, coro_scheduler_task, pc, cur, nitems, kind, fut,
                   dequeued, resolved>>

\* The function of item i ends on its thread with outcome o: its
\* run_in_executor future takes the outcome, unless it was cancelled.
ThreadEnd(i, o) ==
    /\ op' = IF op[i] = "running" THEN [op EXCEPT ![i] = o] ELSE op
    /\ executing' = executing \ {i}
    /\ UNCHANGED <<coro_queue, coro_scheduler_task, pc, cur, nitems, kind, fut,
                   dequeued, resolved>>

\* One turn of `for file in encrypted_files: cls.decrypt_connector_config(file)`:
\* the bundle goes into the cache; an exception of the load leaves decrypt_all.
DecryptConnectorConfig(i) ==
    LET c == Head(tfiles[i])
        r == LoadConnectorConfigMapFromFile(files[c])
    IN  IF r.ok
        THEN /\ secure_configs' = [secure_configs EXCEPT ![c] = r.bundle]
             /\ tfiles' = [tfiles EXCEPT ![i] = Tail(tfiles[i])]
             /\ UNCHANGED tpc
             /\ UNCHANGED schedVars
        ELSE /\ tpc' = [tpc EXCEPT ![i] = "raised"]
             /\ ThreadEnd(i, "raised")
             /\ UNCHANGED <<secure_configs, tfiles>>

DecryptFile ==
    \E i \in Items :
        /\ tpc[i] = "load"
        /\ tfiles[i] # <<>>
        /\ DecryptConnectorConfig(i)
        /\ UNCHANGED <<verification, files, secrets_manager, decryption_done, caller,
                       calls, logins, loginPw, loginResult>>

\* cls._decryption_done.set(), which resumes the callers that wait, and the
\* return of decrypt_all.
DecryptSet ==
    \E i \in Items :
        /\ tpc[i] = "load"
        /\ tfiles[i] = <<>>
        /\ decryption_done' = TRUE
        /\ caller' = [c \in Callers |->
                        IF caller[c] = "waiting" THEN "resumed" ELSE caller[c]]
        /\ tpc' = [tpc EXCEPT ![i] = "returned"]
        /\ ThreadEnd(i, "returned")
        /\ UNCHANGED <<verification, files, secrets_manager, secure_configs, calls,
                       tfiles, logins, loginPw, loginResult>>

FileStates == {"absent", "ok", "bad"}

----------------------------------------------------------------------------
(***************************************************************************)
(* The store of the vault (security.py): update_secure_config,             *)
(* remove_secure_config, decrypted_value and all_decrypted_values, with    *)
(* the objects they take and return.  A ClientConfigAdapter is an object   *)
(* on the heap `objects`; the cache, the callers and AllConnectorSettings  *)
(* hold references to objects.                                             *)
(***************************************************************************)

\* The secret values a config object or a secret file can hold.
Bundles == {"ok", "edited"}

\* The references to config objects: one for the bundle of each secret file
\* and one for each object the callers create.
Ref(k) == ToString(k)

ObjIds == {Ref(k) : k \in 1..(NumConnectors + NumConfigs)}

\* A place of the heap that holds no object yet.
NoObject == [connector |-> 0, bundle |-> "free"]

\* No dict returned by all_decrypted_values yet.
NoMapping == [ref |-> "none", map |-> [c \in Connectors |-> "none"]]

NoCall == [name |-> "none", connector |-> 0, outcome |-> "none", n |-> 0]

\* The record of call number last.n + 1 of the store.
Call(name, c, outcome) ==
    [name |-> name, connector |-> c, outcome |-> outcome, n |-> last.n + 1]

\* No caller of the store yet; AllConnectorSettings has an entry with blank
\* config_keys for every connector.
StoreInit ==
    /\ objects = [o \in ObjIds |-> NoObject]
    /\ held = {}
    /\ mapping = NoMapping
    /\ connector_settings = [c \in Connectors |-> "blank"]
    /\ last = NoCall

\* The program after a login whose decrypt_all pass over the secret files of
\* disk has completed and was delivered by the loop of the scheduler: the
\* cache refers to one bundle object for each file.
AfterDecryptAll(disk, settings) ==
    /\ coro_queue = <<>>
    /\ coro_scheduler_task = "alive"
    /\ pc = "get"
    /\ cur = 1
    /\ nitems = 1
    /\ kind = [i \in Items |-> IF i = 1 THEN "func" ELSE "none"]
    /\ op = [i \in Items |-> IF i = 1 THEN "returned" ELSE "none"]
    /\ executing = {}
    /\ fut = [i \in Items |-> IF i = 1 THEN "value" ELSE "none"]
    /\ dequeued = <<1>>
    /\ resolved = <<1>>
    /\ verification = StorePasswordVerification(1, 1, 1)
    /\ files = disk
    /\ secrets_manager = 1
    /\ secure_configs = [c \in Connectors |-> IF disk[c] = "absent" THEN "none" ELSE Ref(c)]
    /\ decryption_done = TRUE
    /\ caller = [c \in Callers |-> "idle"]
    /\ calls = 0
    /\ tpc = [i \in Items |-> IF i = 1 THEN "returned" ELSE "none"]
    /\ tfiles = [i \in Items |-> <<>>]
    /\ logins = 1
    /\ loginPw = 1
    /\ loginResult = "true"
    /\ objects = [o \in ObjIds |->
                    IF \E c \in Connectors : o = Ref(c) /\ disk[c] # "absent"
                    THEN LET c == CHOOSE d \in Connectors : o = Ref(d)
                         IN  [connector |-> c, bundle |-> disk[c]]
                    ELSE NoObject]
    /\ held = {}
    /\ mapping = NoMapping
    /\ connector_settings = settings
    /\ last = NoCall

\* A caller builds a ClientConfigAdapter for connector c with secret values b
\* and keeps the reference to it.
NewConfig ==
    \E c \in Connectors, b \in Bundles :
        /\ \E o \in ObjIds : objects[o] = NoObject
        /\ LET o == CHOOSE r \in ObjIds : objects[r] = NoObject IN
            /\ objects' = [objects EXCEPT ![o] = [connector |-> c, bundle |-> b]]
            /\ held' = held \cup {o}
        /\ last' = Call("new", c, "returned")
        /\ UNCHANGED <<mapping, connector_settings>>
        /\ UNCHANGED <<vaultVars, schedVars, codecVars, registryVars, watchVars>>

\* save_to_yml(file_path, connector_config): the secret file of connector c
\* holds the (encrypted) secret values of the object.
SaveToYml(disk, c, bundle) == [disk EXCEPT ![c] = bundle]

\* AllConnectorSettings.update_connector_config_keys(new_config_keys) for the
\* config_keys object keys of connector c: KeyError if the connector has no
\* entry in the settings.
UpdateConnectorConfigKeys(settings, c, keys) ==
    IF settings[c] = "unregistered" THEN [ok |-> FALSE, settings |-> settings]
    ELSE [ok |-> TRUE, settings |-> [settings EXCEPT ![c] = keys]]

\* AllConnectorSettings.reset_connector_config_keys(connector): KeyError if the
\* connector has no entry; config_keys that are None stay None and are handed
\* to update_connector_config_keys, which fails on None.connector; other
\* config_keys are replaced by a blank object of their class.
ResetConnectorConfigKeys(settings, c) ==
    IF settings[c] \in {"unregistered", "None"} THEN [ok |-> FALSE, settings |-> settings]
    ELSE UpdateConnectorConfigKeys(settings, c, "blank")

\* update_connector_hb_config(connector_config)
UpdateConnectorHbConfig(settings, c, o) == UpdateConnectorConfigKeys(settings, c, o)

\* reset_connector_hb_config(connector_name)
ResetConnectorHbConfig(settings, c) == ResetConnectorConfigKeys(settings, c)

\* Security.update_secure_config(connector_config) with the object o a caller
\* holds: write the file, update the settings, put the object into the cache.
\* An exception of the second step leaves the method after the first.
UpdateSecureConfig(o) ==
    LET c == objects[o].connector
        u == UpdateConnectorHbConfig(connector_settings, c, o)
    IN  /\ files' = SaveToYml(files, c, objects[o].bundle)
        /\ connector_settings' = u.settings
        /\ secure_configs' = IF u.ok THEN [secure_configs EXCEPT ![c] = o]
                             ELSE secure_configs
        /\ last' = Call("save", c,
                    IF u.ok THEN "returned" ELSE "raised")

SaveSecret ==
    /\ \E o \in held : UpdateSecureConfig(o)
    /\ UNCHANGED <<objects, held, mapping>>
    /\ UNCHANGED <<verification, secrets_manager, decryption_done, caller, calls, tpc,
                   tfiles, logins, loginPw, loginResult>>
    /\ UNCHANGED <<schedVars, codecVars, registryVars, watchVars>>

\* dict.pop(key) without a default: KeyError if the dict has no such key.
DictPop(d, c) ==
    IF d[c] = "none" THEN [ok |-> FALSE, dict |-> d]
    ELSE [ok |-> TRUE, dict |-> [d EXCEPT ![c] = "none"]]

\* Security.remove_secure_config(connector_name): unlink(missing_ok=True), reset
\* the settings, pop the cache entry.
RemoveSecureConfig(c) ==
    LET r == ResetConnectorHbConfig(connector_settings, c)
        d == DictPop(secure_configs, c)
    IN  /\ files' = [files EXCEPT ![c] = "absent"]
        /\ connector_settings' = r.settings
        /\ secure_configs' = IF r.ok THEN d.dict ELSE secure_configs
        /\ last' = Call("remove", c,
                    IF r.ok /\ d.ok THEN "returned" ELSE "raised")

RemoveSecret ==
    /\ \E c \in Connectors : RemoveSecureConfig(c)
    /\ UNCHANGED <<objects, held, mapping>>
    /\ UNCHANGED <<verification, secrets_manager, decryption_done, caller, calls, tpc,
                   tfiles, logins, loginPw, loginResult>>
    /\ UNCHANGED <<schedVars, codecVars, registryVars, watchVars>>

\* Security.decrypted_value(key): cls._secure_configs.get(key, None), the object
\* of the cache itself; the caller keeps the reference.
DecryptedValue ==
    \E c \in Connectors :
        /\ held' = IF secure_configs[c] = "none" THEN held
                   ELSE held \cup {secure_configs[c]}
        /\ last' = Call("secrets_for", c, "returned")
        /\ UNCHANGED <<objects, mapping, connector_settings>>
        /\ UNCHANGED <<vaultVars, schedVars, codecVars, registryVars, watchVars>>

\* A method that hands out the dict of the cache itself.
DictAlias(d) == [ref |-> "vault", map |-> d]

\* dict.copy(): a new dict with the keys of d and the same objects as values.
DictCopy(d) == [ref |-> "copy", map |-> d]

\* Security.all_decrypted_values()
AllDecryptedValues ==
    /\ mapping' = DictCopy(secure_configs)
    /\ last' = Call("all_secrets", 0, "returned")
    /\ UNCHANGED <<objects, held, connector_settings>>
    /\ UNCHANGED <<vaultVars, schedVars, codecVars, registryVars, watchVars>>

\* What the caller's dict holds: its own keys, or those of the dict it is.
MappingView == IF mapping.ref = "vault" THEN secure_configs ELSE mapping.map

\* A caller takes a bundle out of the dict it got.
TakeBundle ==
    \E c \in Connectors :
        /\ mapping.ref # "none"
        /\ MappingView[c] # "none"
        /\ MappingView[c] \notin held
        /\ held' = held \cup {MappingView[c]}
        /\ last' = Call("take", c, "returned")
        /\ UNCHANGED <<objects, mapping, connector_settings>>
        /\ UNCHANGED <<vaultVars, schedVars, codecVars, registryVars, watchVars>>

\* A caller inserts, replaces or deletes key c of the dict it got (x is an
\* object it holds, or "none" for del): the write goes to the dict the caller's
\* reference refers to.
MutateMapping ==
    \E c \in Connectors, x \in held \cup {"none"} :
        /\ mapping.ref # "none"
        /\ MappingView[c] # x
        /\ IF mapping.ref = "vault"
           THEN /\ secure_configs' = [secure_configs EXCEPT ![c] = x]
                /\ mapping' = mapping
           ELSE /\ mapping' = [mapping EXCEPT !.map[c] = x]
                /\ secure_configs' = secure_configs
        /\ last' = Call("mutate_mapping", c, "returned")
        /\ UNCHANGED <<objects, held, connector_settings>>
        /\ UNCHANGED <<verification, files, secrets_manager, decryption_done, caller,
                       calls, tpc, tfiles, logins, loginPw, loginResult>>
        /\ UNCHANGED <<schedVars, codecVars, registryVars, watchVars>>

\* A caller changes the secret values of a config object it holds.
MutateBundle ==
    \E o \in held, b \in Bundles :
        /\ objects[o].bundle # b
        /\ objects' = [objects EXCEPT ![o].bundle = b]
        /\ last' = Call("mutate_bundle", objects[o].connector,
                    "returned")
        /\ UNCHANGED <<held, mapping, connector_settings>>
        /\ UNCHANGED <<vaultVars, schedVars, codecVars, registryVars, watchVars>>

(***************************************************************************)
(* The connector registry (hummingbot/client/settings.py):                 *)
(* GatewayConnectionSetting, ConnectorSetting and AllConnectorSettings.    *)
(*                                                                         *)
(* A str is the sequence of its symbols: a symbol stands for a run of      *)
(* characters, and "_" and "." stand for themselves.  A dict is the        *)
(* sequence of its items <<key, value>> in insertion order.  A value that  *)
(* can be None, and an attribute or key that can be missing, is <<>> or    *)
(* <<the value>>.                                                          *)
(***************************************************************************)

\* f"{a}_{b}"
Join(a, b) == a \o <<"_">> \o b

\* s.startswith(prefix)
StartsWith(s, prefix) ==
    /\ Len(prefix) <= Len(s)
    /\ SubSeq(s, 1, Len(prefix)) = prefix

\* The places of s where sub occurs.
Occurrences(s, sub) ==
    {i \in 1..(Len(s) + 1 - Len(sub)) : SubSeq(s, i, i + Len(sub) - 1) = sub}

\* `sub in s`
Contains(s, sub) == Occurrences(s, sub) # {}

\* s.replace(old, new): every occurrence of old, from the left, none overlapping.
RECURSIVE StrReplace(_, _, _)
StrReplace(s, old, new) ==
    IF Len(s) < Len(old) THEN s
    ELSE IF SubSeq(s, 1, Len(old)) = old
         THEN new \o StrReplace(SubSeq(s, Len(old) + 1, Len(s)), old, new)
         ELSE <<Head(s)>> \o StrReplace(Tail(s), old, new)

\* s.split(sep): the list of the parts of s between the occurrences of sep.
RECURSIVE StrSplit(_, _)
StrSplit(s, sep) ==
    IF ~Contains(s, sep) THEN <<s>>
    ELSE LET i == CHOOSE j \in Occurrences(s, sep) :
                      \A k \in Occurrences(s, sep) : j <= k
         IN  <<SubSeq(s, 1, i - 1)>> \o StrSplit(SubSeq(s, i + Len(sep), Len(s)), sep)

\* "_".join(parts)
RECURSIVE StrJoin(_)
StrJoin(parts) ==
    IF Len(parts) = 1 THEN parts[1] ELSE Join(parts[1], StrJoin(Tail(parts)))

\* The lower-case form of a symbol.
LowerSymbol(w) ==
    CASE w = "AMM" -> "amm"
      [] w = "LP" -> "lp"
      [] w = "Perpetual" -> "perpetual"
      [] w = "CLOB" -> "clob"
      [] w = "SPOT" -> "spot"
      [] w = "PERP" -> "perp"
      [] w = "Connector" -> "connector"
      [] w = "Exchange" -> "exchange"
      [] w = "Derivative" -> "derivative"
      [] w = "EVM" -> "evm"
      [] OTHER -> w

\* s.lower()
Lower(s) == [i \in DOMAIN s |-> LowerSymbol(s[i])]

\* A symbol with its first character in upper case.
CapitalSymbol(w) ==
    CASE w = "exchange" -> "Exchange"
      [] w = "derivative" -> "Derivative"
      [] w = "connector" -> "Connector"
      [] w = "dex" -> "Dex"
      [] w = "uni" -> "Uni"
      [] w = "sol" -> "Sol"
      [] OTHER -> w

\* s.capitalize()
Capitalize(s) ==
    IF s = <<>> THEN s ELSE <<CapitalSymbol(LowerSymbol(s[1]))>> \o Lower(Tail(s))

\* The keys of a dict.
DictKeys(d) == {d[i][1] : i \in DOMAIN d}

\* d[k] of a dict that has the key k.
DictGet(d, k) == d[CHOOSE i \in DOMAIN d : d[i][1] = k][2]

\* d[k] = v
DictSet(d, k, v) ==
    IF k \in DictKeys(d)
    THEN [i \in DOMAIN d |-> IF d[i][1] = k THEN <<k, v>> ELSE d[i]]
    ELSE Append(d, <<k, v>>)

\* d.update(items)
RECURSIVE DictUpdate(_, _)
DictUpdate(d, items) ==
    IF items = <<>> THEN d
    ELSE DictUpdate(DictSet(d, items[1][1], items[1][2]), Tail(items))

\* The members of the enum ConnectorType, by name.
ConnectorType ==
    {<<"AMM">>, <<"AMM", "_", "LP">>, <<"AMM", "_", "Perpetual">>,
     <<"CLOB", "_", "SPOT">>, <<"CLOB", "_", "PERP">>,
     <<"Connector">>, <<"Exchange">>, <<"Derivative">>}

\* SUPPORTED_CHAINS: two of the chains of native_tokens.
SUPPORTED_CHAINS == {<<"ethereum">>, <<"near">>}

\* GatewayConnectionSetting.get_market_name_from_connector_spec(connector_spec)
GetMarketNameFromConnectorSpec(connector_spec) ==
    Join(connector_spec.connector, Join(connector_spec.chain, connector_spec.network))

\* GatewayConnectionSetting.get_connector_spec(connector_name, chain, network)
\* over the specs conf that load() returns: the last spec that matches, or None.
GetConnectorSpec(conf, connector_name, chain, network) ==
    LET matching == {i \in DOMAIN conf : /\ conf[i].connector = connector_name
                                         /\ conf[i].chain = chain
                                         /\ conf[i].network = network}
    IN  IF matching = {} THEN <<>>
        ELSE <<conf[CHOOSE i \in matching : \A j \in matching : j <= i]>>

\* GatewayConnectionSetting.get_connector_spec_from_market_name(market_name):
\* the ways the call can end.  The loop goes over a set of str, whose order
\* is not fixed: the chain it uses is any supported chain that occurs in the
\* name, and unpacking the parts raises ValueError unless there are two.
GetConnectorSpecFromMarketName(conf, market_name) ==
    LET found == {chain \in SUPPORTED_CHAINS : Contains(market_name, chain)}
    IN  IF found = {} THEN {[outcome |-> "returned", spec |-> <<>>]}
        ELSE {LET parts == StrSplit(market_name, <<"_">> \o chain \o <<"_">>)
              IN  IF Len(parts) # 2 THEN [outcome |-> "ValueError", spec |-> <<>>]
                  ELSE [outcome |-> "returned",
                        spec |-> GetConnectorSpec(conf, parts[1], chain, parts[2])]
              : chain \in found}

\* The dict new_connector_spec of upsert_connector_spec.
NewConnectorSpec(connector_name, chain, network, trading_type, chain_type, wallet_address, additional_spenders, additional_prompt_values) ==
    [connector |-> connector_name, chain |-> chain, network |-> network,
     trading_type |-> trading_type, chain_type |-> chain_type,
     wallet_address |-> wallet_address,
     additional_spenders |-> <<additional_spenders>>,
     additional_prompt_values |-> additional_prompt_values]

\* An upsert that appends the spec whatever the list holds.
UpsertConnectorSpecAppending(conf, new_connector_spec) ==
    Append(conf, new_connector_spec)

\* GatewayConnectionSetting.upsert_connector_spec(...) over the specs conf that
\* load() returns: the list that is saved.  The first spec of the connector,
\* chain and network is replaced; without one the new spec is appended.
UpsertConnectorSpec(conf, new_connector_spec) ==
    LET matching == {i \in DOMAIN conf :
                         /\ conf[i].connector = new_connector_spec.connector
                         /\ conf[i].chain = new_connector_spec.chain
                         /\ conf[i].network = new_connector_spec.network}
    IN  IF matching = {} THEN Append(conf, new_connector_spec)
        ELSE [conf EXCEPT ![CHOOSE i \in matching : \A j \in matching : i <= j]
                              = new_connector_spec]

\* ConnectorSetting(NamedTuple): the fields of an entry of the registry.
ConnectorSetting(name, type, example_pair, centralised, use_ethereum_wallet, trade_fee_schema, config_keys, is_sub_domain, parent_name, domain_parameter, use_eth_gas_lookup) ==
    [name |-> name, type |-> type, example_pair |-> example_pair,
     centralised |-> centralised, use_ethereum_wallet |-> use_ethereum_wallet,
     trade_fee_schema |-> trade_fee_schema, config_keys |-> config_keys,
     is_sub_domain |-> is_sub_domain, parent_name |-> parent_name,
     domain_parameter |-> domain_parameter,
     use_eth_gas_lookup |-> use_eth_gas_lookup]

UsesGatewayGenericConnectorAmmOnly(self) ==
    self.type \notin {<<"Exchange">>, <<"Derivative">>, <<"Connector">>,
                      <<"CLOB", "_", "SPOT">>, <<"CLOB", "_", "PERP">>}

\* ConnectorSetting.uses_gateway_generic_connector()
UsesGatewayGenericConnector(self) ==
    self.type \notin {<<"Exchange">>, <<"Derivative">>, <<"Connector">>}

\* ConnectorSetting.uses_clob_connector()
UsesClobConnector(self) ==
    self.type \in {<<"CLOB", "_", "SPOT">>, <<"CLOB", "_", "PERP">>}

\* ConnectorSetting._get_module_package()
GetModulePackage(self) == Lower(self.type)

\* ConnectorSetting.base_name()
BaseName(self) ==
    IF self.is_sub_domain
    THEN IF self.parent_name = <<>> THEN <<"None">> ELSE self.parent_name[1]
    ELSE self.name

\* ConnectorSetting.module_name(): the ways the call can end.
ModuleName(conf, self) ==
    IF UsesGatewayGenericConnector(self)
    THEN IF Contains(self.type, <<"AMM">>)
         THEN {IF r.outcome # "returned" THEN [outcome |-> r.outcome, value |-> <<>>]
               ELSE IF r.spec = <<>> THEN [outcome |-> "TypeError", value |-> <<>>]
               ELSE [outcome |-> "returned",
                     value |-> <<"gateway", ".">> \o Lower(self.type)
                               \o <<".", "gateway", "_">> \o Lower(r.spec[1].chain_type)
                               \o <<"_">> \o GetModulePackage(self)]
               : r \in GetConnectorSpecFromMarketName(conf, self.name)}
         ELSE IF Contains(self.type, <<"CLOB">>)
         THEN {[outcome |-> "returned",
                value |-> <<"gateway", ".">> \o Lower(self.type)
                          \o <<".", "gateway", "_">> \o GetModulePackage(self)]}
         ELSE {[outcome |-> "ValueError", value |-> <<>>]}
    ELSE {[outcome |-> "returned", value |-> Join(BaseName(self), GetModulePackage(self))]}

\* The upper-case form of a symbol.
UpperSymbol(w) ==
    CASE w = "evm" -> "EVM"
      [] w = "amm" -> "AMM"
      [] w = "clob" -> "CLOB"
      [] w = "lp" -> "LP"
      [] w = "sol" -> "SOL"
      [] w = "spot" -> "SPOT"
      [] OTHER -> w

\* "".join(parts)
RECURSIVE ConcatAll(_)
ConcatAll(parts) ==
    IF parts = <<>> THEN <<>> ELSE Head(parts) \o ConcatAll(Tail(parts))

ModulePathOfOwnName(conf, self) ==
    {IF m.outcome # "returned" THEN [outcome |-> m.outcome, value |-> <<>>]
     ELSE IF UsesGatewayGenericConnector(self)
     THEN [outcome |-> "returned",
           value |-> <<"hummingbot", ".", "connector", ".">> \o m.value]
     ELSE [outcome |-> "returned",
           value |-> <<"hummingbot", ".", "connector", ".">> \o GetModulePackage(self)
                     \o <<".">> \o self.name \o <<".">> \o m.value]
     : m \in ModuleName(conf, self)}

\* ConnectorSetting.module_path(): the ways the call can end.
ModulePath(conf, self) ==
    {IF m.outcome # "returned" THEN [outcome |-> m.outcome, value |-> <<>>]
     ELSE IF UsesGatewayGenericConnector(self)
     THEN [outcome |-> "returned",
           value |-> <<"hummingbot", ".", "connector", ".">> \o m.value]
     ELSE [outcome |-> "returned",
           value |-> <<"hummingbot", ".", "connector", ".">> \o GetModulePackage(self)
                     \o <<".">> \o BaseName(self) \o <<".">> \o m.value]
     : m \in ModuleName(conf, self)}

\* ConnectorSetting.class_name(): the ways the call can end.
ClassName(conf, self) ==
    {IF m.outcome # "returned" THEN [outcome |-> m.outcome, value |-> <<>>]
     ELSE IF UsesGatewayGenericConnector(self)
     THEN LET parts == StrSplit(m.value, <<".">>)
              splited_name == StrSplit(parts[Len(parts)], <<"_">>)
          IN  [outcome |-> "returned",
               value |-> ConcatAll([i \in DOMAIN splited_name |->
                             IF splited_name[i] \in {<<"evm">>, <<"amm">>, <<"clob">>,
                                                     <<"lp">>, <<"sol">>, <<"spot">>}
                             THEN <<UpperSymbol(splited_name[i][1])>>
                             ELSE Capitalize(splited_name[i])])]
     ELSE LET names == StrSplit(m.value, <<"_">>)
          IN  [outcome |-> "returned",
               value |-> ConcatAll([i \in DOMAIN names |-> Capitalize(names[i])])]
     : m \in ModuleName(conf, self)}

\* name.rsplit(sep="_", maxsplit=2)[0]
RSplitHead(name) ==
    LET parts == StrSplit(name, <<"_">>)
    IN  IF Len(parts) <= 3 THEN parts[1] ELSE StrJoin(SubSeq(parts, 1, Len(parts) - 2))

\* ConnectorSetting.get_api_data_source_module_name()
GetApiDataSourceModuleName(self) ==
    IF ~UsesClobConnector(self) THEN <<>>
    ELSE IF self.type = <<"CLOB", "_", "PERP">>
         THEN RSplitHead(self.name) \o <<"_", "api", "_", "data", "_", "source">>
         ELSE StrSplit(self.name, <<"_">>)[1] \o <<"_", "api", "_", "data", "_", "source">>

\* ConnectorSetting.get_api_data_source_class_name()
GetApiDataSourceClassName(self) ==
    IF ~UsesClobConnector(self) THEN <<>>
    ELSE IF self.type = <<"CLOB", "_", "PERP">>
         THEN Capitalize(StrSplit(self.name, <<"_">>)[1]) \o <<"PerpetualAPIDataSource">>
         ELSE Capitalize(StrSplit(self.name, <<"_">>)[1]) \o <<"APIDataSource">>

\* ConnectorSetting._load_clob_api_data_source(...): the instance of the class
\* of that name in the module of that path, built from the arguments.
LoadClobApiDataSource(self, trading_pairs, trading_required, client_config_map, connector_spec) ==
    [module_path |-> <<"hummingbot", ".", "connector", ".", "gateway", ".">>
                     \o GetModulePackage(self) \o <<".", "data", "_", "sources", ".">>
                     \o RSplitHead(self.name) \o <<".">>
                     \o GetApiDataSourceModuleName(self),
     class |-> GetApiDataSourceClassName(self),
     trading_pairs |-> trading_pairs,
     connector_spec |-> connector_spec,
     client_config_map |-> client_config_map]

\* `x or default` of an argument that is None or a list or dict.
OrDefault(x, default) == IF x = <<>> \/ x[1] = <<>> THEN default ELSE x[1]

\* The names of the parameters conn_init_parameters adds.
TRADING_PAIRS == <<"trading", "_", "pairs">>

TRADING_REQUIRED == <<"trading", "_", "required">>

CLIENT_CONFIG_MAP == <<"client", "_", "config", "_", "map">>

CONNECTOR_CONFIGURATION == <<"connector", "_", "configuration">>

DOMAIN_PARAMETER == <<"domain">>

\* {k.replace(name, parent_name): v for k, v in api_keys.items()}
RECURSIVE RenamedKeys(_, _, _)
RenamedKeys(items, name, parent_name) ==
    IF items = <<>> THEN <<>>
    ELSE LET rest == RenamedKeys(SubSeq(items, 1, Len(items) - 1), name, parent_name)
             item == items[Len(items)]
         IN  DictSet(rest, StrReplace(item[1], name, parent_name), item[2])

CommonParametersPassingAlways(self, params, trading_pairs, trading_required, client_config_map) ==
    LET p == DictSet(DictSet(DictSet(params, TRADING_PAIRS, trading_pairs),
                             TRADING_REQUIRED, trading_required),
                     CLIENT_CONFIG_MAP, client_config_map)
    IN  IF self.config_keys # <<>>
        THEN DictSet(p, CONNECTOR_CONFIGURATION, self.config_keys)
        ELSE p

\* The end of conn_init_parameters: the parameters every branch adds and the
\* configuration the config keys ask to be passed.
CommonParameters(self, params, trading_pairs, trading_required, client_config_map) ==
    LET p == DictSet(DictSet(DictSet(params, TRADING_PAIRS, trading_pairs),
                             TRADING_REQUIRED, trading_required),
                     CLIENT_CONFIG_MAP, client_config_map)
    IN  IF /\ self.config_keys # <<>>
           /\ self.config_keys[1].kind # "dict"
           /\ self.config_keys[1].receive_connector_configuration = "True"
        THEN DictSet(p, CONNECTOR_CONFIGURATION, self.config_keys)
        ELSE p

\* The gateway branch of conn_init_parameters with the connection spec found.
GatewayParameters(self, trading_pairs, trading_required, client_config_map, connector_spec) ==
    LET p0 == IF self.config_keys = <<>> THEN <<>> ELSE self.config_keys[1].items
        p1 == DictUpdate(p0, <<<<<<"connector", "_", "name">>, connector_spec.connector>>,
                               <<<<"chain">>, connector_spec.chain>>,
                               <<<<"network">>, connector_spec.network>>,
                               <<<<"address">>, connector_spec.wallet_address>>>>)
    IN  IF ~UsesClobConnector(self)
        THEN DictSet(p1, <<"additional", "_", "spenders">>,
                     IF connector_spec.additional_spenders = <<>> THEN <<>>
                     ELSE connector_spec.additional_spenders[1])
        ELSE DictSet(p1, <<"api", "_", "data", "_", "source">>,
                     LoadClobApiDataSource(self, trading_pairs, trading_required,
                                           client_config_map, connector_spec))

\* ConnectorSetting.conn_init_parameters(trading_pairs, trading_required,
\* api_keys, client_config_map): the ways the call can end.
ConnInitParameters(conf, self, trading_pairs_arg, trading_required, api_keys_arg, client_config_map) ==
    LET trading_pairs == OrDefault(trading_pairs_arg, <<>>)
        api_keys == OrDefault(api_keys_arg, <<>>)
        Returned(params) ==
            [outcome |-> "returned",
             params |-> CommonParameters(self, params, trading_pairs, trading_required,
                                         client_config_map)]
    IN  IF UsesGatewayGenericConnector(self)
        THEN {IF r.outcome # "returned" THEN [outcome |-> r.outcome, params |-> <<>>]
              ELSE IF r.spec = <<>> THEN [outcome |-> "TypeError", params |-> <<>>]
              ELSE Returned(GatewayParameters(self, trading_pairs, trading_required,
                                              client_config_map, r.spec[1]))
              : r \in GetConnectorSpecFromMarketName(conf, self.name)}
        ELSE IF ~self.is_sub_domain
        THEN {Returned(api_keys)}
        ELSE IF self.parent_name = <<>> /\ api_keys # <<>>
        THEN {[outcome |-> "TypeError", params |-> <<>>]}
        ELSE {Returned(DictSet(RenamedKeys(api_keys, self.name,
                                           IF self.parent_name = <<>> THEN <<>>
                                           ELSE self.parent_name[1]),
                               DOMAIN_PARAMETER, self.domain_parameter))}

\* The api_keys argument of the caller after conn_init_parameters returned
\* params: `api_keys or {}` is the caller's dict when that is not empty, and
\* `params = api_keys` makes it the dict the parameters are added to.
ApiKeysAfterCall(self, api_keys_arg, params) ==
    IF /\ ~UsesGatewayGenericConnector(self)
       /\ ~self.is_sub_domain
       /\ OrDefault(api_keys_arg, <<>>) # <<>>
    THEN <<params>>
    ELSE api_keys_arg

\* Decimal(str(x)) / Decimal("100") of a fee x in whole percent; a Decimal is
\* written in ten-thousandths.
PercentFeeDecimal(x) == x * 100

\* AllConnectorSettings._validate_trade_fee_schema(exchange_name, trade_fee_schema)
\* of fee settings that are None, a TradeFeeSchema or a list of two percentages.
ValidateTradeFeeSchema(exchange_name, trade_fee_schema) ==
    IF trade_fee_schema # <<>> /\ trade_fee_schema[1].schema
    THEN [maker_percent_fee_decimal |-> trade_fee_schema[1].maker,
          taker_percent_fee_decimal |-> trade_fee_schema[1].taker]
    ELSE [maker_percent_fee_decimal |->
              IF trade_fee_schema # <<>> THEN PercentFeeDecimal(trade_fee_schema[1].maker)
              ELSE 0,
          taker_percent_fee_decimal |->
              IF trade_fee_schema # <<>> THEN PercentFeeDecimal(trade_fee_schema[1].taker)
              ELSE 0]

\* getattr(util_module, attr, default)
Getattr(util_module, attr, default) ==
    IF util_module[attr] = <<>> THEN default ELSE util_module[attr][1]

\* getattr(util_module, attr)[domain]: AttributeError if the module has no such
\* attribute, KeyError if the dict has no such key.
GetattrItem(util_module, attr, domain) ==
    IF util_module[attr] = <<>> THEN [outcome |-> "AttributeError", value |-> <<>>]
    ELSE IF domain \notin DictKeys(util_module[attr][1])
         THEN [outcome |-> "KeyError", value |-> <<>>]
         ELSE [outcome |-> "returned", value |-> <<DictGet(util_module[attr][1], domain)>>]

\* connector_exceptions
CONNECTOR_EXCEPTIONS ==
    {<<"mock", "_", "paper", "_", "exchange">>,
     <<"mock", "_", "pure", "_", "python", "_", "paper", "_", "exchange">>,
     <<"paper", "_", "trade">>}

\* CONNECTOR_SUBMODULES_THAT_ARE_NOT_CEX_TYPES
CONNECTOR_SUBMODULES_THAT_ARE_NOT_CEX_TYPES ==
    {<<"test", "_", "support">>, <<"utilities">>, <<"gateway">>}

\* The entry of sub-domain domain of the connector whose entry is parent.
SubDomainSetting(parent, domain, fees, pair, keys, parameter) ==
    ConnectorSetting(domain, parent.type, pair, parent.centralised,
                     parent.use_ethereum_wallet,
                     ValidateTradeFeeSchema(domain, fees), keys, TRUE,
                     <<parent.name>>, <<parameter>>, parent.use_eth_gas_lookup)

\* The loop of create_connector_settings over the other domains of a connector.
RECURSIVE AddOtherDomains(_, _, _, _)
AddOtherDomains(settings, util_module, connector_dir_name, other_domains) ==
    IF other_domains = <<>> THEN [outcome |-> "returned", settings |-> settings]
    ELSE LET domain == Head(other_domains)
             fees == GetattrItem(util_module, "OTHER_DOMAINS_DEFAULT_FEES", domain)
             pair == GetattrItem(util_module, "OTHER_DOMAINS_EXAMPLE_PAIR", domain)
             keys == GetattrItem(util_module, "OTHER_DOMAINS_KEYS", domain)
             parameter == GetattrItem(util_module, "OTHER_DOMAINS_PARAMETER", domain)
             parent == DictGet(settings, connector_dir_name)
         IN  IF fees.outcome # "returned"
             THEN [outcome |-> fees.outcome, settings |-> settings]
             ELSE IF pair.outcome # "returned"
             THEN [outcome |-> pair.outcome, settings |-> settings]
             ELSE IF keys.outcome # "returned"
             THEN [outcome |-> keys.outcome, settings |-> settings]
             ELSE IF parameter.outcome # "returned"
             THEN [outcome |-> parameter.outcome, settings |-> settings]
             ELSE AddOtherDomains(
                      DictSet(settings, domain,
                              SubDomainSetting(parent, domain,
                                               fees.value[1], pair.value[1],
                                               keys.value[1], parameter.value[1])),
                      util_module, connector_dir_name, Tail(other_domains))

\* The entry of the connector of a directory with its utils module.
InstalledSetting(type_dir_name, connector_dir_name, util_module) ==
    ConnectorSetting(connector_dir_name, Capitalize(type_dir_name),
                     Getattr(util_module, "EXAMPLE_PAIR", ""),
                     Getattr(util_module, "CENTRALIZED", TRUE),
                     Getattr(util_module, "USE_ETHEREUM_WALLET", FALSE),
                     ValidateTradeFeeSchema(connector_dir_name, util_module.DEFAULT_FEES),
                     util_module.KEYS, FALSE, <<>>, <<>>,
                     Getattr(util_module, "USE_ETH_GAS_LOOKUP", FALSE))

\* The loops of create_connector_settings over the type directories and their
\* connector directories, dirs being the connector directories in scan order.
RECURSIVE ScanConnectorDirs(_, _)
ScanConnectorDirs(settings, dirs) ==
    IF dirs = <<>> THEN [outcome |-> "returned", settings |-> settings]
    ELSE LET dir == Head(dirs) IN
         IF \/ dir.type_dir \in CONNECTOR_SUBMODULES_THAT_ARE_NOT_CEX_TYPES
            \/ StartsWith(dir.name, <<"_">>)
            \/ dir.name \in CONNECTOR_EXCEPTIONS
         THEN ScanConnectorDirs(settings, Tail(dirs))
         ELSE IF dir.name \in DictKeys(settings)
         THEN [outcome |-> "Exception", settings |-> settings]
         ELSE IF dir.utils = <<>>
         THEN ScanConnectorDirs(settings, Tail(dirs))
         ELSE IF Capitalize(dir.type_dir) \notin ConnectorType
         THEN [outcome |-> "KeyError", settings |-> settings]
         ELSE LET added == AddOtherDomains(
                               DictSet(settings, dir.name,
                                       InstalledSetting(dir.type_dir, dir.name,
                                                        dir.utils[1])),
                               dir.utils[1], dir.name,
                               Getattr(dir.utils[1], "OTHER_DOMAINS", <<>>))
              IN  IF added.outcome # "returned" THEN added
                  ELSE ScanConnectorDirs(added.settings, Tail(dirs))

\* The entry of a gateway connection.
GatewaySetting(connection_spec) ==
    ConnectorSetting(GetMarketNameFromConnectorSpec(connection_spec),
                     connection_spec.trading_type, "WETH-USDC", FALSE, FALSE,
                     ValidateTradeFeeSchema(<<"gateway">>,
                                            <<[schema |-> FALSE, maker |-> 0, taker |-> 0]>>),
                     <<>>, FALSE, <<>>, <<>>, FALSE)

\* The loop of create_connector_settings over the gateway connections.
RECURSIVE AddGatewayConnectors(_, _)
AddGatewayConnectors(settings, gateway_connections_conf) ==
    IF gateway_connections_conf = <<>> THEN [outcome |-> "returned", settings |-> settings]
    ELSE LET connection_spec == Head(gateway_connections_conf) IN
         IF connection_spec.trading_type \notin ConnectorType
         THEN [outcome |-> "KeyError", settings |-> settings]
         ELSE AddGatewayConnectors(
                  DictSet(settings, GetMarketNameFromConnectorSpec(connection_spec),
                          GatewaySetting(connection_spec)),
                  Tail(gateway_connections_conf))

\* AllConnectorSettings.create_connector_settings(): how the call ends and the
\* dict it leaves in all_connector_settings, which an exception leaves as far
\* as it was built.
CreateConnectorSettings(dirs, conf) ==
    LET scanned == ScanConnectorDirs(<<>>, dirs)
    IN  IF scanned.outcome # "returned" THEN scanned
        ELSE AddGatewayConnectors(scanned.settings, conf)

\* f"{e}_paper_trade"
PaperTradeName(e) == e \o <<"_", "paper", "_", "trade">>

PaperTradeSettingNamedAsBase(e, base_connector_settings) ==
    ConnectorSetting(base_connector_settings.name, base_connector_settings.type,
                     base_connector_settings.example_pair,
                     base_connector_settings.centralised,
                     base_connector_settings.use_ethereum_wallet,
                     base_connector_settings.trade_fee_schema,
                     base_connector_settings.config_keys, FALSE,
                     <<base_connector_settings.name>>, <<>>,
                     base_connector_settings.use_eth_gas_lookup)

\* The entry initialize_paper_trade_settings builds for exchange e from the
\* entry of e.
PaperTradeSetting(e, base_connector_settings) ==
    ConnectorSetting(PaperTradeName(e), base_connector_settings.type,
                     base_connector_settings.example_pair,
                     base_connector_settings.centralised,
                     base_connector_settings.use_ethereum_wallet,
                     base_connector_settings.trade_fee_schema,
                     base_connector_settings.config_keys, FALSE,
                     <<base_connector_settings.name>>, <<>>,
                     base_connector_settings.use_eth_gas_lookup)

\* AllConnectorSettings.initialize_paper_trade_settings(paper_trade_exchanges)
RECURSIVE InitializePaperTradeSettings(_, _)
InitializePaperTradeSettings(settings, paper_trade_exchanges) ==
    IF paper_trade_exchanges = <<>> THEN settings
    ELSE LET e == Head(paper_trade_exchanges) IN
         InitializePaperTradeSettings(
             IF e \in DictKeys(settings)
             THEN DictSet(settings, PaperTradeName(e),
                          PaperTradeSetting(e, DictGet(settings, e)))
             ELSE settings,
             Tail(paper_trade_exchanges))

\* AllConnectorSettings.get_connector_settings(): an empty registry is built
\* by create_connector_settings first.
GetConnectorSettings(settings, dirs, conf) ==
    IF Len(settings) = 0 THEN CreateConnectorSettings(dirs, conf)
    ELSE [outcome |-> "returned", settings |-> settings]

\* AllConnectorSettings.get_connector_config_keys(connector)
GetConnectorConfigKeys(settings, dirs, conf, connector) ==
    LET got == GetConnectorSettings(settings, dirs, conf)
    IN  IF got.outcome # "returned"
        THEN [outcome |-> got.outcome, settings |-> got.settings, value |-> <<>>]
        ELSE IF connector \notin DictKeys(got.settings)
        THEN [outcome |-> "KeyError", settings |-> got.settings, value |-> <<>>]
        ELSE [outcome |-> "returned", settings |-> got.settings,
              value |-> DictGet(got.settings, connector).config_keys]

\* AllConnectorSettings.update_connector_config_keys(new_config_keys) on the
\* registry itself: the entry of new_config_keys.connector with new_config_keys
\* as its config_keys.
UpdateConnectorConfigKeysEntry(settings, dirs, conf, new_config_keys) ==
    LET got == GetConnectorSettings(settings, dirs, conf)
    IN  IF got.outcome # "returned" THEN got
        ELSE IF new_config_keys = <<>>
        THEN [outcome |-> "AttributeError", settings |-> got.settings]
        ELSE IF new_config_keys[1].connector \notin DictKeys(got.settings)
        THEN [outcome |-> "KeyError", settings |-> got.settings]
        ELSE [outcome |-> "returned",
              settings |-> DictSet(got.settings, new_config_keys[1].connector,
                                   [DictGet(got.settings, new_config_keys[1].connector)
                                        EXCEPT !.config_keys = new_config_keys])]

\* current_keys.__class__.construct(): a blank object of the class of the keys.
Construct(current_keys) == [current_keys EXCEPT !.values = "blank"]

\* AllConnectorSettings.reset_connector_config_keys(connector) on the registry
\* itself.
ResetConnectorConfigKeysEntry(settings, dirs, conf, connector) ==
    LET got == GetConnectorSettings(settings, dirs, conf)
    IN  IF got.outcome # "returned" THEN got
        ELSE IF connector \notin DictKeys(got.settings)
        THEN [outcome |-> "KeyError", settings |-> got.settings]
        ELSE LET current_keys == DictGet(got.settings, connector).config_keys
             IN  UpdateConnectorConfigKeysEntry(
                     got.settings, dirs, conf,
                     IF current_keys = <<>> THEN <<>> ELSE <<Construct(current_keys[1])>>)

\* The names of the connectors of a run.
foo == <<"foo">>

foo_us == <<"foo", "_", "us">>

bar == <<"bar">>

baz == <<"baz">>

\* The names a caller looks up: a connector that can be installed and one
\* that never is.
ConnectorNames == {foo, baz}

\* A BaseConnectorConfigMap of a connector, blank: its `connector` field, its
\* values, and its field receive_connector_configuration if it has one.  The
\* `items` are those of a legacy dict of ConfigVar, kind "dict".
ConfigMap(connector) ==
    [kind |-> "map", connector |-> connector, values |-> "blank", items |-> <<>>,
     receive_connector_configuration |-> "missing"]

\* The config keys a caller passes to update_connector_config_keys.
NewConfigKeys ==
    {[ConfigMap(connector) EXCEPT !.values = "edited",
                                  !.receive_connector_configuration = "True"]
     : connector \in {foo}}

\* A list of two fees in percent.
FeeList(maker, taker) == [schema |-> FALSE, maker |-> maker, taker |-> taker]

\* The utils module of connector foo, which declares the sub-domain foo_us,
\* with its attribute OTHER_DOMAINS_DEFAULT_FEES as given.
FooUtils(other_domains_default_fees) ==
    [CENTRALIZED |-> <<TRUE>>,
     EXAMPLE_PAIR |-> <<"FOO-USD">>,
     USE_ETHEREUM_WALLET |-> <<>>,
     DEFAULT_FEES |-> <<FeeList(1, 2)>>,
     KEYS |-> <<ConfigMap(foo)>>,
     OTHER_DOMAINS |-> <<<<foo_us>>>>,
     OTHER_DOMAINS_DEFAULT_FEES |-> other_domains_default_fees,
     OTHER_DOMAINS_EXAMPLE_PAIR |-> <<<<<<foo_us, "FOO-USDT">>>>>>,
     OTHER_DOMAINS_KEYS |-> <<<<<<foo_us, <<ConfigMap(foo_us)>>>>>>>>,
     OTHER_DOMAINS_PARAMETER |-> <<<<<<foo_us, "us">>>>>>,
     USE_ETH_GAS_LOOKUP |-> <<>>]

\* The fees a utils module can declare for the sub-domain: a list of its own,
\* or no attribute OTHER_DOMAINS_DEFAULT_FEES at all.
DeclaredDomainFees == {<<<<<<foo_us, <<FeeList(3, 4)>>>>>>>>, <<>>}

\* The utils module of a connector with no sub-domains.
PlainUtils(connector) ==
    [CENTRALIZED |-> <<FALSE>>,
     EXAMPLE_PAIR |-> <<>>,
     USE_ETHEREUM_WALLET |-> <<TRUE>>,
     DEFAULT_FEES |-> <<>>,
     KEYS |-> <<ConfigMap(connector)>>,
     OTHER_DOMAINS |-> <<>>,
     OTHER_DOMAINS_DEFAULT_FEES |-> <<>>,
     OTHER_DOMAINS_EXAMPLE_PAIR |-> <<>>,
     OTHER_DOMAINS_KEYS |-> <<>>,
     OTHER_DOMAINS_PARAMETER |-> <<>>,
     USE_ETH_GAS_LOOKUP |-> <<>>]

\* The connector directories a run can have: exchange/foo, connector/foo_us
\* and derivative/foo, the last without a utils module.
DirPool ==
    {[type_dir |-> <<"exchange">>, name |-> foo, utils |-> <<FooUtils(fees)>>]
     : fees \in DeclaredDomainFees}
    \cup {[type_dir |-> <<"connector">>, name |-> foo_us, utils |-> <<PlainUtils(foo_us)>>],
          [type_dir |-> <<"derivative">>, name |-> foo, utils |-> <<>>]}

\* scandir gives the type directories, and the connector directories of each,
\* in any order: the lists of at most MaxDirs directories, those of one type
\* directory together, no path twice.
ConnectorDirLists ==
    {dirs \in UNION {[1..n -> DirPool] : n \in 0..MaxDirs} :
        /\ \A i, j \in DOMAIN dirs :
               (i # j) => <<dirs[i].type_dir, dirs[i].name>> # <<dirs[j].type_dir, dirs[j].name>>
        /\ \A i, j, k \in DOMAIN dirs :
               (i < j /\ j < k /\ dirs[i].type_dir = dirs[k].type_dir)
                   => dirs[j].type_dir = dirs[i].type_dir}

\* The connector directories of a program with the connectors foo, with its
\* sub-domain foo_us, and bar, and the directory of the paper trade exchange.
InstalledDirs ==
    <<[type_dir |-> <<"exchange">>, name |-> <<"paper", "_", "trade">>, utils |-> <<>>],
      [type_dir |-> <<"exchange">>, name |-> foo,
       utils |-> <<FooUtils(<<<<<<foo_us, <<FeeList(3, 4)>>>>>>>>)>>],
      [type_dir |-> <<"connector">>, name |-> bar, utils |-> <<PlainUtils(bar)>>]>>

\* The gateway connections a run can have: an AMM, a perpetual AMM and a CLOB
\* on supported chains, and an AMM on a chain that is not in SUPPORTED_CHAINS.
GatewayPool ==
    {[connector |-> <<"uni">>, chain |-> <<"ethereum">>, network |-> <<"mainnet">>,
      trading_type |-> <<"AMM">>, chain_type |-> <<"EVM">>, wallet_address |-> "0xA",
      additional_spenders |-> <<<<"0xS">>>>],
     [connector |-> <<"perp">>, chain |-> <<"ethereum">>, network |-> <<"optimism">>,
      trading_type |-> <<"AMM", "_", "Perpetual">>, chain_type |-> <<"EVM">>,
      wallet_address |-> "0xD", additional_spenders |-> <<<<>>>>],
     [connector |-> <<"dex">>, chain |-> <<"near">>, network |-> <<"mainnet">>,
      trading_type |-> <<"CLOB", "_", "SPOT">>, chain_type |-> <<"NEAR">>,
      wallet_address |-> "0xB", additional_spenders |-> <<<<>>>>],
     [connector |-> <<"sol">>, chain |-> <<"solana">>, network |-> <<"mainnet">>,
      trading_type |-> <<"AMM">>, chain_type |-> <<"SOL">>, wallet_address |-> "0xC",
      additional_spenders |-> <<<<>>>>]}

\* What upsert_connector_spec leaves in gateway_connections.json: at most
\* MaxConnections specs, no two for the same connector, chain and network.
GatewayConnectionLists ==
    {conf \in UNION {[1..n -> GatewayPool] : n \in 0..MaxConnections} :
        \A i, j \in DOMAIN conf : (i # j) => conf[i] # conf[j]}

\* The market names a caller looks up.
MarketNames == {GetMarketNameFromConnectorSpec(spec) : spec \in GatewayPool} \cup {foo}

\* The lists a caller passes to initialize_paper_trade_settings.
PaperTradeExchanges == {<<baz, foo>>}

\* The api keys a caller passes to conn_init_parameters: None, or a dict with
\* some of the keys of foo_us and foo.
ApiKeyDicts ==
    {<<>>,
     <<<<Join(foo_us, <<"api", "_", "key">>), "key of foo_us">>>>,
     <<<<Join(foo, <<"api", "_", "key">>), "key of foo">>>>,
     <<<<Join(foo_us, <<"api", "_", "key">>), "key of foo_us">>,
       <<Join(foo, <<"api", "_", "key">>), "key of foo">>>>}

ApiKeyBundles == {<<>>} \cup {<<api_keys>> : api_keys \in ApiKeyDicts}

\* The other arguments a caller passes to conn_init_parameters.
ConnInitArguments ==
    {[trading_pairs |-> <<>>, trading_required |-> FALSE],
     [trading_pairs |-> <<<<"FOO-USD">>>>, trading_required |-> TRUE]}

\* No call of the registry yet.
NoRegistryCall ==
    [call |-> "none", name |-> <<>>, outcome |-> "none", before |-> <<>>,
     setting |-> <<>>, config_keys |-> <<>>, spec |-> <<>>, params |-> <<>>,
     api_keys |-> <<>>, trading_pairs |-> <<>>, trading_required |-> FALSE,
     module |-> <<>>, path |-> <<>>, class_name |-> <<>>, kept |-> <<>>,
     conf |-> <<>>, stored |-> <<>>]

\* The class attribute all_connector_settings = {} of a program with no
\* connector directory and no gateway connection.
RegistryInit ==
    /\ all_connector_settings = <<>>
    /\ connector_dirs = <<>>
    /\ gateway_connections = <<>>
    /\ reg = NoRegistryCall

\* A call of create_connector_settings().
Discover ==
    LET created == CreateConnectorSettings(connector_dirs, gateway_connections)
    IN  /\ all_connector_settings' = created.settings
        /\ reg' = [NoRegistryCall EXCEPT !.call = "create_connector_settings",
                                         !.outcome = created.outcome,
                                         !.before = all_connector_settings]
        /\ UNCHANGED <<connector_dirs, gateway_connections>>
        /\ UNCHANGED <<schedVars, vaultVars, storeVars, codecVars, watchVars>>

\* A call of initialize_paper_trade_settings(paper_trade_exchanges).
PaperTrade ==
    \E paper_trade_exchanges \in PaperTradeExchanges :
        /\ all_connector_settings' =
               InitializePaperTradeSettings(all_connector_settings, paper_trade_exchanges)
        /\ reg' = [NoRegistryCall EXCEPT !.call = "initialize_paper_trade_settings",
                                         !.outcome = "returned",
                                         !.before = all_connector_settings]
        /\ UNCHANGED <<connector_dirs, gateway_connections>>
        /\ UNCHANGED <<schedVars, vaultVars, storeVars, codecVars, watchVars>>

\* A call of update_connector_config_keys(new_config_keys).
UpdateKeys ==
    \E new_config_keys \in NewConfigKeys :
        LET updated == UpdateConnectorConfigKeysEntry(
                           all_connector_settings, connector_dirs, gateway_connections,
                           <<new_config_keys>>)
        IN  /\ all_connector_settings' = updated.settings
            /\ reg' = [NoRegistryCall EXCEPT !.call = "update_connector_config_keys",
                                             !.name = new_config_keys.connector,
                                             !.config_keys = <<new_config_keys>>,
                                             !.outcome = updated.outcome,
                                             !.before = all_connector_settings]
            /\ UNCHANGED <<connector_dirs, gateway_connections>>
            /\ UNCHANGED <<schedVars, vaultVars, storeVars, codecVars, watchVars>>

\* A call of reset_connector_config_keys(connector).
ResetKeys ==
    \E connector \in ConnectorNames :
        LET updated == ResetConnectorConfigKeysEntry(
                           all_connector_settings, connector_dirs, gateway_connections,
                           connector)
        IN  /\ all_connector_settings' = updated.settings
            /\ reg' = [NoRegistryCall EXCEPT !.call = "reset_connector_config_keys",
                                             !.name = connector,
                                             !.outcome = updated.outcome,
                                             !.before = all_connector_settings]
            /\ UNCHANGED <<connector_dirs, gateway_connections>>
            /\ UNCHANGED <<schedVars, vaultVars, storeVars, codecVars, watchVars>>

\* A call of reset_connector_config_keys(connector) for a connector that has
\* an entry in the registry.
ResetEntry ==
    \E i \in DOMAIN all_connector_settings :
        LET connector == all_connector_settings[i][1]
            updated == ResetConnectorConfigKeysEntry(
                           all_connector_settings, connector_dirs, gateway_connections,
                           connector)
        IN  /\ all_connector_settings' = updated.settings
            /\ reg' = [NoRegistryCall EXCEPT !.call = "reset_connector_config_keys",
                                             !.name = connector,
                                             !.setting = <<all_connector_settings[i][2]>>,
                                             !.outcome = updated.outcome,
                                             !.before = all_connector_settings]
            /\ UNCHANGED <<connector_dirs, gateway_connections>>
            /\ UNCHANGED <<schedVars, vaultVars, storeVars, codecVars, watchVars>>

\* A call of get_connector_config_keys(connector).
LookupConfigKeys ==
    \E connector \in ConnectorNames :
        LET got == GetConnectorConfigKeys(
                       all_connector_settings, connector_dirs, gateway_connections,
                       connector)
        IN  /\ all_connector_settings' = got.settings
            /\ reg' = [NoRegistryCall EXCEPT !.call = "get_connector_config_keys",
                                             !.name = connector,
                                             !.config_keys = got.value,
                                             !.outcome = got.outcome,
                                             !.before = all_connector_settings]
            /\ UNCHANGED <<connector_dirs, gateway_connections>>
            /\ UNCHANGED <<schedVars, vaultVars, storeVars, codecVars, watchVars>>

\* A call of get_connector_spec(connector_name, chain, network).
LookupSpec ==
    \E wanted \in GatewayPool :
        /\ reg' = [NoRegistryCall EXCEPT
                       !.call = "get_connector_spec",
                       !.name = GetMarketNameFromConnectorSpec(wanted),
                       !.spec = GetConnectorSpec(gateway_connections, wanted.connector,
                                                 wanted.chain, wanted.network),
                       !.outcome = "returned",
                       !.before = all_connector_settings]
        /\ UNCHANGED <<all_connector_settings, connector_dirs, gateway_connections>>
        /\ UNCHANGED <<schedVars, vaultVars, storeVars, codecVars, watchVars>>

\* The arguments a caller passes to upsert_connector_spec: the connections of
\* the pool, each with the wallet it has there or with another one, and a
\* connection on ethereum whose connector is named near_dex.
UpsertArguments ==
    LET pool == GatewayPool
                \cup {[connector |-> <<"near", "_", "dex">>, chain |-> <<"ethereum">>,
                       network |-> <<"mainnet">>, trading_type |-> <<"AMM">>,
                       chain_type |-> <<"EVM">>, wallet_address |-> "0xE",
                       additional_spenders |-> <<<<>>>>]}
    IN  pool \cup {[spec EXCEPT !.wallet_address = "0xN"] : spec \in pool}

\* A call of upsert_connector_spec(connector_name, chain, network, ...).
Upsert ==
    \E a \in UpsertArguments :
        LET new_connector_spec ==
                NewConnectorSpec(a.connector, a.chain, a.network, a.trading_type,
                                 a.chain_type, a.wallet_address,
                                 a.additional_spenders[1], <<>>)
        IN  /\ gateway_connections' = UpsertConnectorSpec(gateway_connections,
                                                          new_connector_spec)
            /\ reg' = [NoRegistryCall EXCEPT
                           !.call = "upsert_connector_spec",
                           !.name = GetMarketNameFromConnectorSpec(new_connector_spec),
                           !.spec = <<new_connector_spec>>,
                           !.conf = gateway_connections,
                           !.outcome = "returned",
                           !.before = all_connector_settings]
            /\ UNCHANGED <<all_connector_settings, connector_dirs>>
            /\ UNCHANGED <<schedVars, vaultVars, storeVars, codecVars, watchVars>>

\* A call of get_connector_spec_from_market_name with the market name of a
\* stored spec.
LookupStored ==
    \E i \in DOMAIN gateway_connections :
        LET market_name == GetMarketNameFromConnectorSpec(gateway_connections[i]) IN
        \E got \in GetConnectorSpecFromMarketName(gateway_connections, market_name) :
            /\ reg' = [NoRegistryCall EXCEPT
                           !.call = "get_connector_spec_from_market_name",
                           !.name = market_name,
                           !.stored = <<gateway_connections[i]>>,
                           !.spec = got.spec,
                           !.conf = gateway_connections,
                           !.outcome = got.outcome,
                           !.before = all_connector_settings]
            /\ UNCHANGED <<all_connector_settings, connector_dirs, gateway_connections>>
            /\ UNCHANGED <<schedVars, vaultVars, storeVars, codecVars, watchVars>>

\* A call of get_connector_spec_from_market_name(market_name).
LookupSpecFromMarketName ==
    \E market_name \in MarketNames :
        \E got \in GetConnectorSpecFromMarketName(gateway_connections, market_name) :
            /\ reg' = [NoRegistryCall EXCEPT
                           !.call = "get_connector_spec_from_market_name",
                           !.name = market_name,
                           !.spec = got.spec,
                           !.outcome = got.outcome,
                           !.before = all_connector_settings]
            /\ UNCHANGED <<all_connector_settings, connector_dirs, gateway_connections>>
            /\ UNCHANGED <<schedVars, vaultVars, storeVars, codecVars, watchVars>>

\* A call of conn_init_parameters of an entry of the registry.
ResolveParams ==
    \E i \in DOMAIN all_connector_settings, args \in ConnInitArguments,
       api_keys \in ApiKeyBundles :
        LET self == all_connector_settings[i][2] IN
        \E got \in ConnInitParameters(gateway_connections, self, args.trading_pairs,
                                      args.trading_required, api_keys,
                                      "client_config_map") :
            /\ reg' = [NoRegistryCall EXCEPT
                           !.call = "conn_init_parameters",
                           !.name = self.name,
                           !.setting = <<self>>,
                           !.api_keys = api_keys,
                           !.trading_pairs = args.trading_pairs,
                           !.trading_required = args.trading_required,
                           !.params = got.params,
                           !.kept = IF got.outcome = "returned"
                                    THEN ApiKeysAfterCall(self, api_keys, got.params)
                                    ELSE api_keys,
                           !.outcome = got.outcome,
                           !.before = all_connector_settings]
            /\ UNCHANGED <<all_connector_settings, connector_dirs, gateway_connections>>
            /\ UNCHANGED <<schedVars, vaultVars, storeVars, codecVars, watchVars>>

\* A call of module_name of an entry of the registry.
ResolveModule ==
    \E i \in DOMAIN all_connector_settings :
        LET self == all_connector_settings[i][2] IN
        \E got \in ModuleName(gateway_connections, self) :
            /\ reg' = [NoRegistryCall EXCEPT
                           !.call = "module_name",
                           !.name = self.name,
                           !.setting = <<self>>,
                           !.module = got.value,
                           !.outcome = got.outcome,
                           !.before = all_connector_settings]
            /\ UNCHANGED <<all_connector_settings, connector_dirs, gateway_connections>>
            /\ UNCHANGED <<schedVars, vaultVars, storeVars, codecVars, watchVars>>

\* A call of module_path of an entry of the registry.
ResolvePath ==
    \E i \in DOMAIN all_connector_settings :
        LET self == all_connector_settings[i][2] IN
        \E got \in ModulePath(gateway_connections, self) :
            /\ reg' = [NoRegistryCall EXCEPT
                           !.call = "module_path",
                           !.name = self.name,
                           !.setting = <<self>>,
                           !.path = got.value,
                           !.outcome = got.outcome,
                           !.before = all_connector_settings]
            /\ UNCHANGED <<all_connector_settings, connector_dirs, gateway_connections>>
            /\ UNCHANGED <<schedVars, vaultVars, storeVars, codecVars, watchVars>>

\* A call of class_name of an entry of the registry.
ResolveClass ==
    \E i \in DOMAIN all_connector_settings :
        LET self == all_connector_settings[i][2] IN
        \E got \in ClassName(gateway_connections, self) :
            /\ reg' = [NoRegistryCall EXCEPT
                           !.call = "class_name",
                           !.name = self.name,
                           !.setting = <<self>>,
                           !.class_name = got.value,
                           !.outcome = got.outcome,
                           !.before = all_connector_settings]
            /\ UNCHANGED <<all_connector_settings, connector_dirs, gateway_connections>>
            /\ UNCHANGED <<schedVars, vaultVars, storeVars, codecVars, watchVars>>

----------------------------------------------------------------------------
\* The scheduler with operations of any kind, apart from the vault.
Init ==
    /\ SchedInit
    /\ VaultInit([c \in Connectors |-> "absent"], <<>>)
    /\ StoreInit
    /\ codec = NoCodec
    /\ RegistryInit
    /\ WatchInit

Next ==
    \/ Submit /\ UNCHANGED clientVars
    \/ CallerCancel /\ UNCHANGED clientVars
    \/ Get /\ UNCHANGED clientVars
    \/ OpFinish /\ UNCHANGED clientVars
    \/ ThreadFinish /\ UNCHANGED clientVars
    \/ Resolve /\ UNCHANGED clientVars
    \/ Timeout /\ UNCHANGED clientVars
    \/ Sleep /\ UNCHANGED clientVars
    \/ Stop /\ UNCHANGED clientVars
    \/ Start /\ UNCHANGED clientVars

Spec == Init /\ [][Next]_vars

\* The scheduler while nobody calls stop() or start(): the event loop runs every
\* task that is ready, so each step of the loop that stays possible is taken.
RunNext ==
    \/ Submit /\ UNCHANGED clientVars
    \/ CallerCancel /\ UNCHANGED clientVars
    \/ Get /\ UNCHANGED clientVars
    \/ OpFinish /\ UNCHANGED clientVars
    \/ ThreadFinish /\ UNCHANGED clientVars
    \/ Resolve /\ UNCHANGED clientVars
    \/ Timeout /\ UNCHANGED clientVars
    \/ Sleep /\ UNCHANGED clientVars

LiveSpec ==
    /\ Init
    /\ [][RunNext]_vars
    /\ WF_vars(Get /\ UNCHANGED clientVars)
    /\ WF_vars(Resolve /\ UNCHANGED clientVars)
    /\ WF_vars(Sleep /\ UNCHANGED clientVars)

\* LiveSpec with the timer of async_timeout: an operation that the loop awaits
\* ends by itself or is ended by its timeout.
FairSpec ==
    /\ LiveSpec
    /\ WF_vars((Resolve \/ Timeout) /\ UNCHANGED clientVars)

\* The steps of the vault: logins, the threads that run decrypt_all and the
\* callers that wait for the decryption.  The loop of the scheduler is left to
\* Spec: its steps read and write the variables of the scheduler only.
VaultNext ==
    \/ Login /\ UNCHANGED <<storeVars, codecVars, registryVars, watchVars>>
    \/ RunCall /\ UNCHANGED <<storeVars, codecVars, registryVars, watchVars>>
    \/ WaitTilDecryptionDone /\ UNCHANGED <<storeVars, codecVars, registryVars, watchVars>>
    \/ DecryptClearConfigs /\ UNCHANGED <<storeVars, codecVars, registryVars, watchVars>>
    \/ DecryptClearEvent /\ UNCHANGED <<storeVars, codecVars, registryVars, watchVars>>
    \/ DecryptList /\ UNCHANGED <<storeVars, codecVars, registryVars, watchVars>>
    \/ DecryptFile /\ UNCHANGED <<storeVars, codecVars, registryVars, watchVars>>
    \/ DecryptSet /\ UNCHANGED <<storeVars, codecVars, registryVars, watchVars>>

\* The vault over every state of the secret files, with a verification file
\* as store_password_verification wrote it.
VaultSpecInit ==
    /\ SchedInit
    /\ \E disk \in [Connectors -> FileStates], v \in StoredVerifications :
        VaultInit(disk, v)
    /\ StoreInit
    /\ codec = NoCodec
    /\ RegistryInit
    /\ WatchInit

VaultSpec == VaultSpecInit /\ [][VaultNext]_vars

\* The vault over every state of the verification file, with secret files
\* that decrypt.
LoginSpecInit ==
    /\ SchedInit
    /\ \E v \in VerificationFiles : VaultInit([c \in Connectors |-> "ok"], v)
    /\ StoreInit
    /\ codec = NoCodec
    /\ RegistryInit
    /\ WatchInit

LoginSpec == LoginSpecInit /\ [][VaultNext]_vars

\* The store after a login and its decrypt_all pass, over every state of the
\* secret files and of AllConnectorSettings: callers that save and remove
\* secrets.
StoreNext ==
    \/ last.n < MaxCalls /\ NewConfig
    \/ last.n < MaxCalls /\ SaveSecret
    \/ last.n < MaxCalls /\ RemoveSecret

StoreSpecInit ==
    /\ \E disk \in [Connectors -> {"absent", "ok"}],
          settings \in [Connectors -> {"unregistered", "None", "blank"}] :
        AfterDecryptAll(disk, settings)
    /\ codec = NoCodec
    /\ RegistryInit
    /\ WatchInit

StoreSpec == StoreSpecInit /\ [][StoreNext]_vars

\* The store after a login and its decrypt_all pass, with every connector in
\* AllConnectorSettings: callers that read the cache, save secrets and change
\* the objects they hold.
CopyNext ==
    \/ last.n < MaxCalls /\ NewConfig
    \/ last.n < MaxCalls /\ SaveSecret
    \/ last.n < MaxCalls /\ DecryptedValue
    \/ last.n < MaxCalls /\ AllDecryptedValues
    \/ last.n < MaxCalls /\ TakeBundle
    \/ last.n < MaxCalls /\ MutateMapping
    \/ last.n < MaxCalls /\ MutateBundle

CopySpecInit ==
    /\ \E disk \in [Connectors -> {"absent", "ok"}] :
        AfterDecryptAll(disk, [c \in Connectors |-> "blank"])
    /\ codec = NoCodec
    /\ RegistryInit
    /\ WatchInit

CopySpec == CopySpecInit /\ [][CopyNext]_vars

\* The values a secrets manager is given to encrypt.
SecretValues == {PASSWORD_VERIFICATION_WORD, "", "api_key", "api_secret"}

\* encrypt_secret_value(attr, value) of the manager, which draws salt and iv.
EncryptValue ==
    /\ codec.encrypted = <<>>
    /\ \E salt \in Nonces, iv \in Nonces :
        codec' = [codec EXCEPT
                    !.encrypted = <<EncryptSecretValue(codec.password, codec.value,
                                                       salt, iv)>>]
    /\ UNCHANGED <<schedVars, vaultVars, storeVars, registryVars, watchVars>>

\* The encrypted value is damaged where it is stored.
DamageValue ==
    /\ codec.encrypted # <<>>
    /\ codec.intact
    /\ codec.decrypted = <<>>
    /\ \E d \in Damaged(codec.encrypted[1]) :
        codec' = [codec EXCEPT !.encrypted = <<d>>, !.intact = FALSE]
    /\ UNCHANGED <<schedVars, vaultVars, storeVars, registryVars, watchVars>>

\* decrypt_secret_value(attr, value) of a manager with password w, or with none.
DecryptValue ==
    /\ codec.encrypted # <<>>
    /\ codec.decrypted = <<>>
    /\ \E w \in Passwords \cup {NoPassword} :
        codec' = [codec EXCEPT
                    !.decrypted = <<[password |-> w,
                                     result |-> DecryptSecretValue(w, codec.encrypted[1])]>>]
    /\ UNCHANGED <<schedVars, vaultVars, storeVars, registryVars, watchVars>>

CodecNext ==
    \/ EncryptValue
    \/ DamageValue
    \/ DecryptValue

\* A manager with any password and any value to encrypt.
CodecSpecInit ==
    /\ SchedInit
    /\ VaultInit([c \in Connectors |-> "absent"], <<>>)
    /\ StoreInit
    /\ \E w \in Passwords, value \in SecretValues :
        codec = [NoCodec EXCEPT !.password = w, !.value = value]
    /\ RegistryInit
    /\ WatchInit

CodecSpec == CodecSpecInit /\ [][CodecNext]_vars

\* The registry of a program with any connector directories and gateway
\* connections, before its first use: callers that build it and change it.
RegistryNext ==
    \/ Discover
    \/ PaperTrade
    \/ UpdateKeys
    \/ ResetKeys
    \/ LookupConfigKeys

RegistrySpecInit ==
    /\ SchedInit
    /\ VaultInit([c \in Connectors |-> "absent"], <<>>)
    /\ StoreInit
    /\ codec = NoCodec
    /\ all_connector_settings = <<>>
    /\ connector_dirs \in ConnectorDirLists
    /\ gateway_connections \in GatewayConnectionLists
    /\ reg = NoRegistryCall
    /\ WatchInit

RegistrySpec == RegistrySpecInit /\ [][RegistryNext]_vars

\* The registry of a program with the connectors foo, foo_us and bar and any
\* gateway connections, before its first use: callers that build it, look
\* things up in it and ask its entries for their parameters and modules.
ResolveNext ==
    \/ Discover
    \/ PaperTrade
    \/ UpdateKeys
    \/ LookupConfigKeys
    \/ LookupSpec
    \/ LookupSpecFromMarketName
    \/ ResolveParams
    \/ ResolveModule
    \/ ResolvePath
    \/ ResolveClass
    \/ ResetEntry

ResolveSpecInit ==
    /\ SchedInit
    /\ VaultInit([c \in Connectors |-> "absent"], <<>>)
    /\ StoreInit
    /\ codec = NoCodec
    /\ all_connector_settings = <<>>
    /\ connector_dirs = InstalledDirs
    /\ gateway_connections \in GatewayConnectionLists
    /\ reg = NoRegistryCall
    /\ WatchInit

ResolveSpec == ResolveSpecInit /\ [][ResolveNext]_vars

Range(s) == {s[k] : k \in DOMAIN s}

----------------------------------------------------------------------------
\* C1. Scheduler FIFO: the loop dequeues the items in the order of their
\* submission (item ids count the submissions), it resolves handles of
\* dequeued items only, and the handles it resolves are resolved in that same
\* order: none before the handle of an item submitted earlier.
SchedulerFIFO ==
    /\ dequeued = [k \in 1..Len(dequeued) |-> k]
    /\ Range(resolved) \subseteq Range(dequeued)
    /\ \A a, b \in DOMAIN resolved : a < b => resolved[a] < resolved[b]

\* Three items submitted, dequeued and resolved by the loop, in order.
FIFOWitness == resolved = <<1, 2, 3>>

\* C2. Scheduler timeout: the handle of an item whose timeout fired holds the
\* timeout failure (unless its caller had cancelled it before) and never a
\* value; the timeout leaves the loop task alive, at its sleep; and while
\* nobody stops the scheduler, the next item submitted is dequeued afterwards.
TimeoutDelivered ==
    \A i \in Items : op[i] = "timedout" => fut[i] \in {"timeout", "abandoned"}

TimeoutKeepsLoop ==
    \A i \in Items :
        (op[i] # "timedout" /\ op'[i] = "timedout")
            => (coro_scheduler_task' = "alive" /\ pc' = "sleep" /\ fut'[i] # "value")

TimeoutThenNext ==
    \A i \in Items :
        (op[i] = "timedout" /\ nitems > i) ~> (Len(dequeued) > i)

SchedulerTimeout ==
    /\ []TimeoutDelivered
    /\ [][TimeoutKeepsLoop]_vars
    /\ TimeoutThenNext

\* An item whose handle was pending timed out, and the item submitted after it
\* was dequeued and got its value.
TimeoutWitness ==
    \E i \in Items :
        /\ op[i] = "timedout"
        /\ fut[i] = "timeout"
        /\ i + 1 \in Items
        /\ fut[i + 1] = "value"

\* C3. Exception isolation: no outcome of an item leaves the scheduler with a
\* loop task that has ended while the scheduler still counts as started.
ExceptionIsolation == started => coro_scheduler_task = "alive"

\* C4, as claimed: never more than one operation executing.
OneOperationExecuting == Cardinality(executing) <= 1

\* C4, amended. The loop awaits one item at a time, and a coroutine submitted
\* through schedule_async_call executes only while the loop awaits it, after
\* the loop has dequeued and finished every item submitted before it (their
\* handles are resolved, but for an operation that ended with
\* InvalidStateError).  A function submitted through call_async runs on the
\* thread pool from its submission on.
OneCoroutineInFlight ==
    \A i \in executing :
        kind[i] = "coro" =>
            /\ coro_scheduler_task = "alive"
            /\ pc = "await"
            /\ cur = i
            /\ \A j \in 1..(i - 1) :
                /\ j \in Range(dequeued)
                /\ ~(j \in executing /\ kind[j] = "coro")
                /\ fut[j] # "pending" \/ op[j] = "invalid"

\* A coroutine executes, awaited by the loop, while a function submitted
\* before it is still executing on the thread pool.
InFlightWitness ==
    \E i, j \in executing : j < i /\ kind[i] = "coro" /\ kind[j] = "func"

----------------------------------------------------------------------------
\* What a complete decrypt_all pass over the files on disk leaves in the cache.
CompletePass(disk) ==
    [c \in Connectors |-> IF disk[c] = "ok" THEN "ok" ELSE "none"]

\* Every decrypt_all job that login created has run to its end.
PassesEnded ==
    /\ nitems > 0
    /\ calls = 0
    /\ \A i \in 1..nitems : tpc[i] \in {"returned", "raised"}

\* C5. Completion signal consistency: whenever the completion signal is set,
\* the cache holds the result of a complete pass over the secret files.
CompletionSignalConsistent ==
    decryption_done => secure_configs = CompletePass(files)

\* C6. Per-file failure isolation: once the decrypt_all passes have ended, every
\* connector whose file decrypts is in the cache and only the failing
\* connectors are absent from it.
PerFileIsolation ==
    PassesEnded => \A c \in Connectors : files[c] = "ok" <=> secure_configs[c] # "none"

\* C7. Liveness of wait_til_decryption_done after a successful login: once the
\* decrypt_all passes that the logins started have ended, no caller is left
\* suspended, also when the decryption of a file failed.
WaitersResumed ==
    (secrets_manager # NoPassword /\ PassesEnded)
        => \A c \in Callers : caller[c] # "waiting"

\* A step that is a call of login.
LoginStep == logins' = logins + 1

\* C8. A login that returns false leaves the active key manager, the cache and
\* the completion signal as they were and submits no decrypt_all job, neither
\* as a task to run nor as an item of the scheduler.
FailedLoginStep ==
    (LoginStep /\ loginResult' = "false")
        => /\ secrets_manager' = secrets_manager
           /\ secure_configs' = secure_configs
           /\ decryption_done' = decryption_done
           /\ calls' = calls
           /\ nitems' = nitems
           /\ coro_queue' = coro_queue

FailedLoginLeavesVault == [][FailedLoginStep]_vars

\* A login with another password fails after a login that succeeded, and the
\* manager of the first login is still the active one.
FailedLoginWitness ==
    /\ loginResult = "false"
    /\ secrets_manager # NoPassword
    /\ secrets_manager # loginPw
    /\ decryption_done

\* C9. Password verification: against the record that
\* store_password_verification wrote with password w1, login returns true
\* exactly for the manager with password w1; a login that returns true makes
\* the manager passed in the active one and creates exactly one decrypt_all
\* job; nothing else creates a job or changes the active manager, which is
\* absent before the first login that returns true.
VerifiedLoginStep ==
    LoginStep =>
        /\ \A w1 \in Passwords, salt \in Nonces, iv \in Nonces :
            verification = <<EncryptSecretValue(w1, PASSWORD_VERIFICATION_WORD, salt, iv)>>
                => (loginResult' = "true" <=> loginPw' = w1)
        /\ loginResult' = "true"
            => (secrets_manager' = loginPw' /\ calls' + nitems' = calls + nitems + 1)

JobsAndManagerStep ==
    ~(LoginStep /\ loginResult' = "true")
        => (calls' + nitems' = calls + nitems /\ secrets_manager' = secrets_manager)

JobsQueuedOnce ==
    /\ Len(coro_queue) + Len(dequeued) = nitems
    /\ (calls = 0 /\ nitems = 0) => secrets_manager = NoPassword

PasswordVerification ==
    /\ [][VerifiedLoginStep]_vars
    /\ [][JobsAndManagerStep]_vars
    /\ []JobsQueuedOnce

\* Two logins returned true, the second with the manager that is active now,
\* and each of them put one job into the scheduler.
VerifiedLoginWitness ==
    /\ logins = 2
    /\ loginResult = "true"
    /\ secrets_manager = loginPw
    /\ nitems = 2
    /\ calls = 0

\* C10, as claimed: a login with a password against an existing verification
\* record never raises, whatever is wrong with the password or the record.
LoginNeverRaises ==
    [][(LoginStep /\ verification # <<>> /\ loginPw' # NoPassword)
            => loginResult' # "raise"]_vars

\* C10, amended. A login with a password against an existing verification
\* record returns false when the MAC of the record does not verify (a wrong
\* password, a changed mac or ciphertext) and true otherwise, as long as the
\* record can be decoded; it raises exactly when the record cannot be decoded.
LoginReportStep ==
    (LoginStep /\ verification # <<>> /\ loginPw' # NoPassword) =>
        LET content == verification[1]
            intact == \E w1 \in Passwords, salt \in Nonces, iv \in Nonces :
                        /\ content = EncryptSecretValue(w1, PASSWORD_VERIFICATION_WORD,
                                                        salt, iv)
                        /\ loginPw' = w1
        IN  /\ content.encoding # "hex" <=> loginResult' = "raise"
            /\ (content.encoding = "hex" /\ ~intact) <=> loginResult' = "false"

LoginFailureReporting == [][LoginReportStep]_vars

\* Two logins with a password against a record that is no hex: the first one
\* raised, and so did the second.
LoginRaisesWitness ==
    /\ logins = 2
    /\ loginPw # NoPassword
    /\ loginResult = "raise"
    /\ verification # <<>>
    /\ verification[1].encoding # "hex"

----------------------------------------------------------------------------
\* A step in which a decrypt_all pass completes: its thread sets the signal and
\* returns.
PassCompletes == \E i \in Items : tpc[i] = "load" /\ tpc'[i] = "returned"

\* C11. decrypt_all is disk-consistent: when a decrypt_all pass completes, the
\* connectors in the cache are exactly the connectors that have a secret file
\* on disk, each with the bundle of its file.
PassLeavesDiskInCache ==
    PassCompletes =>
        /\ \A c \in Connectors : secure_configs'[c] # "none" <=> files[c] # "absent"
        /\ secure_configs' = CompletePass(files)

DecryptAllDiskConsistent == [][PassLeavesDiskInCache]_vars

----------------------------------------------------------------------------
\* A step in which the item in flight is cancelled from outside: stop() cancels
\* the loop task while the loop awaits the item's operation.
ExternalCancel ==
    /\ coro_scheduler_task = "alive"
    /\ pc = "await"
    /\ op[cur] = "running"
    /\ op'[cur] = "stopped"

\* C16. Cancellation handling: a cancellation from outside while an item is in
\* flight cancels the item's handle and leaves the loop running, on its way to
\* the next queued item.
CancelledThenContinues ==
    ExternalCancel =>
        /\ fut'[cur] \in {"cancelled", "abandoned"}
        /\ coro_scheduler_task' = "alive"
        /\ pc' \in {"sleep", "get"}

CancellationHandling == [][CancelledThenContinues]_vars

\* C17. Lazy start: a submission made while no loop task is running starts
\* the loop, so that the items in the queue are processed.
SubmissionStartsLoop ==
    (nitems' = nitems + 1) => (coro_scheduler_task' = "alive" /\ pc' # "none")

LazyStart == [][SubmissionStartsLoop]_vars

\* The states of a handle that is done.
DoneStates == {"value", "error", "timeout", "cancelled", "abandoned"}

\* C18. Each submitted item is consumed exactly once: it is in the queue or was
\* dequeued, never both and never twice (the queue and the dequeued items are
\* as many as the items and are all of them); its operation starts at most once (it
\* never runs again after it ended and never goes back to not started); its
\* handle is resolved at most once by the loop and a handle that is done never
\* changes.
ConsumedOnceState ==
    /\ Len(coro_queue) + Len(dequeued) = nitems
    /\ Range(coro_queue) \cup Range(dequeued) = 1..nitems
    /\ Cardinality(Range(resolved)) = Len(resolved)
    /\ \A i \in Range(resolved) : fut[i] \in DoneStates

ConsumedOnceStep ==
    \A i \in Items :
        /\ fut[i] \in DoneStates => fut'[i] = fut[i]
        /\ op[i] \notin {"none", "idle"} => op'[i] # "idle"
        /\ op[i] \notin {"none", "idle", "running"} => op'[i] = op[i]
        /\ (op[i] = "idle" /\ op'[i] = "running")
            => (i \notin Range(dequeued) /\ i \in Range(dequeued'))

ConsumedExactlyOnce ==
    /\ []ConsumedOnceState
    /\ [][ConsumedOnceStep]_vars

\* Three items were dequeued and got their values, and the loop was stopped
\* afterwards, its last item still bound to its local fut.
ConsumedOnceWitness ==
    /\ coro_scheduler_task = "None"
    /\ cur = 3
    /\ dequeued = <<1, 2, 3>>
    /\ \A i \in Range(dequeued) : fut[i] = "value"

\* C19. Every caller is eventually resumed: while nobody stops the scheduler,
\* a handle that is pending is done later, with the result, the failure or
\* the timeout failure of its operation.
CallersResumed ==
    \A i \in Items : (fut[i] = "pending") ~> (fut[i] # "pending")

----------------------------------------------------------------------------
\* C12. save_secret keeps cache and disk in agreement: when
\* update_secure_config ends, by returning or by raising, the cache has an
\* entry for the connector of the configuration and the secret values of
\* that entry are those persisted in the connector's file.
SaveEndsInAgreement ==
    (last'.name = "save") =>
        LET c == last'.connector IN
        /\ secure_configs'[c] # "none"
        /\ files'[c] # "absent"
        /\ objects'[secure_configs'[c]].bundle = files'[c]

SaveKeepsCacheAndDisk == [][SaveEndsInAgreement]_vars

\* C13. remove_secret: remove_secure_config returns without an error when the
\* file of the connector is already absent; when it returns, the connector
\* has no file and no cache entry and the files and cache entries of the
\* other connectors are as before.
RemoveEnds ==
    (last'.name = "remove") =>
        LET c == last'.connector IN
        /\ files[c] = "absent" => last'.outcome = "returned"
        /\ last'.outcome = "returned" =>
            /\ files'[c] = "absent"
            /\ secure_configs'[c] = "none"
            /\ \A d \in Connectors \ {c} :
                files'[d] = files[d] /\ secure_configs'[d] = secure_configs[d]

RemoveToleratesAbsent == [][RemoveEnds]_vars

\* C14. all_secrets returns a copy: when a caller inserts, replaces or deletes
\* a key of the dict it got from all_decrypted_values, the cache keeps its
\* keys and their objects, so decrypted_value and all_decrypted_values return
\* afterwards what they returned before.
MappingWriteStaysOutside ==
    (last'.name = "mutate_mapping") =>
        /\ secure_configs' = secure_configs
        /\ objects' = objects

AllSecretsIsCopy == [][MappingWriteStaysOutside]_vars

\* A caller deleted one key of the dict it got and inserted another: the dict
\* has lost a connector the cache still has and has a connector the cache
\* does not have.
CopyWitness ==
    /\ last.name = "mutate_mapping"
    /\ mapping.ref = "copy"
    /\ \E c, d \in Connectors :
        /\ mapping.map[c] = "none" /\ secure_configs[c] # "none"
        /\ mapping.map[d] # "none" /\ secure_configs[d] = "none"

\* C15. No live reference to a bundle of the vault: when a caller changes a
\* config object it holds (one it got from decrypted_value, one it took out of
\* the dict of all_decrypted_values, one it passed to update_secure_config),
\* the secret values the vault returns for every connector stay as they were.
BundleWriteStaysOutside ==
    (last'.name = "mutate_bundle") =>
        \A c \in Connectors :
            secure_configs[c] # "none" =>
                objects'[secure_configs[c]].bundle = objects[secure_configs[c]].bundle

NoLiveReference == [][BundleWriteStaysOutside]_vars

----------------------------------------------------------------------------
\* C20. Encryption round trip: decrypt_secret_value of a manager with password
\* w, given what encrypt_secret_value of a manager with password w made of the
\* value p, returns p.
EncryptionRoundTrip ==
    (/\ codec.decrypted # <<>>
     /\ codec.intact
     /\ codec.decrypted[1].password = codec.password)
        => codec.decrypted[1].result = [status |-> "ok", value |-> codec.value]

\* The empty value came back from its encryption.
RoundTripWitness ==
    /\ codec.decrypted # <<>>
    /\ codec.intact
    /\ codec.decrypted[1].password = codec.password
    /\ codec.value = ""
    /\ codec.decrypted[1].result.status = "ok"

\* The decryption that was made, by a manager with a password, of a value in
\* hex.
Decrypted ==
    /\ codec.decrypted # <<>>
    /\ codec.decrypted[1].password # NoPassword
    /\ codec.encrypted[1].encoding = "hex"

\* The MAC that the manager with password w computes for the keyfile json.
MacOf(json, w) ==
    Keccak(KeyHalf(DerivedKey(Utf8Encode(w), json.crypto.kdfparams.salt), "hi"),
           json.crypto.ciphertext)

\* C21. Wrong password: the decryption, with another password, of what
\* encrypt_secret_value made with the password of the manager ends with the
\* integrity failure "MAC mismatch" and returns no plaintext.
WrongPasswordRejected ==
    (/\ Decrypted
     /\ codec.intact
     /\ codec.decrypted[1].password # codec.password)
        => codec.decrypted[1].result = [status |-> "MAC mismatch", value |-> ""]

\* The verification word, encrypted with one password, was given to the
\* manager with another password.
WrongPasswordWitness ==
    /\ Decrypted
    /\ codec.intact
    /\ codec.decrypted[1].password # codec.password
    /\ codec.value = PASSWORD_VERIFICATION_WORD
    /\ codec.decrypted[1].result.status = "MAC mismatch"

\* C22. Tamper detection, verify then decrypt: the mac of an encrypted value
\* is the digest of its ciphertext keyed with the second half of the derived
\* key; after a change of the ciphertext or of the mac every decryption ends
\* with "MAC mismatch"; and a decryption returns a plaintext only for a value
\* whose mac is the one its manager computes.
TamperDetected ==
    /\ (codec.encrypted # <<>> /\ codec.intact)
        => codec.encrypted[1].json.crypto.mac
                = MacOf(codec.encrypted[1].json, codec.password)
    /\ (Decrypted /\ ~codec.intact)
        => codec.decrypted[1].result = [status |-> "MAC mismatch", value |-> ""]
    /\ (Decrypted /\ codec.decrypted[1].result.status = "ok")
        => codec.encrypted[1].json.crypto.mac
                = MacOf(codec.encrypted[1].json, codec.decrypted[1].password)

\* A value whose ciphertext was changed was given to the manager that had
\* encrypted it.
TamperWitness ==
    /\ Decrypted
    /\ ~codec.intact
    /\ codec.decrypted[1].password = codec.password
    /\ codec.encrypted[1].json.crypto.ciphertext.msg = <<"bytes", "changed">>
    /\ codec.decrypted[1].result.status = "MAC mismatch"

----------------------------------------------------------------------------
\* The connector directories create_connector_settings builds an entry for.
InstalledDirIndexes ==
    {i \in DOMAIN connector_dirs :
        /\ connector_dirs[i].type_dir \notin CONNECTOR_SUBMODULES_THAT_ARE_NOT_CEX_TYPES
        /\ ~StartsWith(connector_dirs[i].name, <<"_">>)
        /\ connector_dirs[i].name \notin CONNECTOR_EXCEPTIONS
        /\ connector_dirs[i].utils # <<>>}

\* The sub-domains the utils module of directory i declares.
OtherDomainsOf(i) == Range(Getattr(connector_dirs[i].utils[1], "OTHER_DOMAINS", <<>>))

\* How many entries discovery is to make under the name n: connectors,
\* sub-domains and gateway connections.
EntriesNamed(n) ==
    Cardinality({i \in InstalledDirIndexes : connector_dirs[i].name = n})
    + Cardinality({p \in {<<i, d>> : i \in InstalledDirIndexes, d \in ConnectorNames \cup {foo_us}} :
                       p[2] \in OtherDomainsOf(p[1]) /\ p[2] = n})
    + Cardinality({j \in DOMAIN gateway_connections :
                       GetMarketNameFromConnectorSpec(gateway_connections[j]) = n})

\* The names discovery meets: of directories, sub-domains and connections.
DiscoveryNames ==
    {connector_dirs[i].name : i \in DOMAIN connector_dirs}
    \cup UNION {OtherDomainsOf(i) : i \in InstalledDirIndexes}
    \cup {GetMarketNameFromConnectorSpec(gateway_connections[j]) : j \in DOMAIN gateway_connections}

\* No two directories have the same name and no two entries are to be made
\* under one name.
NamesDistinct ==
    /\ \A i, j \in DOMAIN connector_dirs :
           (i # j) => connector_dirs[i].name # connector_dirs[j].name
    /\ \A n \in DiscoveryNames : EntriesNamed(n) <= 1

\* The utils module of directory i declares fees of its own for the sub-domain.
DeclaresFeesFor(i, domain) ==
    /\ connector_dirs[i].utils[1].OTHER_DOMAINS_DEFAULT_FEES # <<>>
    /\ domain \in DictKeys(connector_dirs[i].utils[1].OTHER_DOMAINS_DEFAULT_FEES[1])

\* C23: after create_connector_settings, when no two names collide, every
\* sub-domain a connector declares has an entry of its own with is_sub_domain
\* set, the connector as parent_name, the declared domain parameter and the
\* type, centralised flag and wallet flag of the parent's entry; and if the
\* connector declares no fees for the sub-domain, the fee schema of the
\* parent's entry.
SubDomainInheritance ==
    (reg.call = "create_connector_settings" /\ NamesDistinct) =>
        \A i \in InstalledDirIndexes :
            \A domain \in OtherDomainsOf(i) :
                /\ connector_dirs[i].name \in DictKeys(all_connector_settings)
                /\ domain \in DictKeys(all_connector_settings)
                /\ LET entry == DictGet(all_connector_settings, domain)
                       parent == DictGet(all_connector_settings, connector_dirs[i].name)
                   IN  /\ entry.is_sub_domain
                       /\ entry.parent_name = <<parent.name>>
                       /\ entry.domain_parameter =
                              <<DictGet(connector_dirs[i].utils[1].OTHER_DOMAINS_PARAMETER[1],
                                        domain)>>
                       /\ entry.type = parent.type
                       /\ entry.centralised = parent.centralised
                       /\ entry.use_ethereum_wallet = parent.use_ethereum_wallet
                       /\ ~DeclaresFeesFor(i, domain)
                              => entry.trade_fee_schema = parent.trade_fee_schema

----------------------------------------------------------------------------
\* The last call was conn_init_parameters of a descriptor.
ResolvedParams == reg.call = "conn_init_parameters" /\ reg.setting # <<>>

\* The dict of api keys the last conn_init_parameters call was given, None
\* counting as no key.
SuppliedKeys == IF reg.api_keys = <<>> THEN <<>> ELSE reg.api_keys[1]

\* The list of trading pairs the last conn_init_parameters call was given, None
\* counting as the empty list.
SuppliedPairs == IF reg.trading_pairs = <<>> THEN <<>> ELSE reg.trading_pairs[1]

\* The types of the gateway variants.
GatewayTypes ==
    {<<"AMM">>, <<"AMM", "_", "LP">>, <<"AMM", "_", "Perpetual">>,
     <<"CLOB", "_", "SPOT">>, <<"CLOB", "_", "PERP">>}

\* The key of a secret of the sub-domain `self` under the parent's name.
ParentKey(self, k) == StrReplace(k, self.name, self.parent_name[1])

\* C24: conn_init_parameters of a sub-domain descriptor returns one parameter
\* for each key of the supplied api keys, under the key with the sub-domain
\* name replaced by the parent name and with the value unchanged, no two keys
\* ending under one name, plus `domain` equal to the descriptor's
\* domain_parameter, plus trading_pairs and trading_required.
SubDomainParameters ==
    (ResolvedParams /\ reg.setting[1].is_sub_domain
                    /\ reg.setting[1].type \notin GatewayTypes) =>
        LET self == reg.setting[1] IN
        /\ reg.outcome = "returned"
        /\ \A i \in DOMAIN SuppliedKeys :
               /\ ParentKey(self, SuppliedKeys[i][1]) \in DictKeys(reg.params)
               /\ DictGet(reg.params, ParentKey(self, SuppliedKeys[i][1]))
                      = SuppliedKeys[i][2]
        /\ \A i, j \in DOMAIN SuppliedKeys :
               (i # j) => ParentKey(self, SuppliedKeys[i][1])
                              # ParentKey(self, SuppliedKeys[j][1])
        /\ DOMAIN_PARAMETER \in DictKeys(reg.params)
        /\ DictGet(reg.params, DOMAIN_PARAMETER) = self.domain_parameter
        /\ TRADING_PAIRS \in DictKeys(reg.params)
        /\ DictGet(reg.params, TRADING_PAIRS) = SuppliedPairs
        /\ TRADING_REQUIRED \in DictKeys(reg.params)
        /\ DictGet(reg.params, TRADING_REQUIRED) = reg.trading_required

\* The last call was conn_init_parameters of a descriptor that is neither a
\* sub-domain nor of a gateway type, and it returned.
CentralizedResolved ==
    /\ ResolvedParams
    /\ ~reg.setting[1].is_sub_domain
    /\ reg.setting[1].type \notin GatewayTypes
    /\ reg.outcome = "returned"

\* The descriptor asks for its configuration to be passed to the connector.
RequestsPassthrough(self) ==
    /\ self.config_keys # <<>>
    /\ self.config_keys[1].kind = "map"
    /\ self.config_keys[1].receive_connector_configuration = "True"

\* Every supplied api key other than those in `added` is a parameter with its
\* value.
SuppliedKeysKept(added) ==
    \A i \in DOMAIN SuppliedKeys :
        SuppliedKeys[i][1] \notin added =>
            /\ SuppliedKeys[i][1] \in DictKeys(reg.params)
            /\ DictGet(reg.params, SuppliedKeys[i][1]) = SuppliedKeys[i][2]

\* trading_pairs and trading_required are parameters with the values given.
TradingParametersSet ==
    /\ TRADING_PAIRS \in DictKeys(reg.params)
    /\ DictGet(reg.params, TRADING_PAIRS) = SuppliedPairs
    /\ TRADING_REQUIRED \in DictKeys(reg.params)
    /\ DictGet(reg.params, TRADING_REQUIRED) = reg.trading_required

\* C25 as stated: conn_init_parameters of a descriptor that is neither a
\* sub-domain nor a gateway returns the keys of the supplied api keys with
\* their values, plus trading_pairs and trading_required, and no other key
\* unless the descriptor requests configuration passthrough.
CentralizedParametersExact ==
    CentralizedResolved =>
        /\ SuppliedKeysKept({TRADING_PAIRS, TRADING_REQUIRED})
        /\ TradingParametersSet
        /\ ~RequestsPassthrough(reg.setting[1]) =>
               DictKeys(reg.params) =
                   DictKeys(SuppliedKeys) \cup {TRADING_PAIRS, TRADING_REQUIRED}

\* C25: conn_init_parameters of a descriptor that is neither a sub-domain nor
\* a gateway returns the keys of the supplied api keys with their values, plus
\* trading_pairs, trading_required and client_config_map set to the arguments
\* of the call, plus connector_configuration set to the config keys exactly
\* when the descriptor requests configuration passthrough, and no other key.
CentralizedParameters ==
    CentralizedResolved =>
        /\ SuppliedKeysKept({TRADING_PAIRS, TRADING_REQUIRED, CLIENT_CONFIG_MAP,
                             CONNECTOR_CONFIGURATION})
        /\ TradingParametersSet
        /\ CLIENT_CONFIG_MAP \in DictKeys(reg.params)
        /\ DictGet(reg.params, CLIENT_CONFIG_MAP) = "client_config_map"
        /\ IF RequestsPassthrough(reg.setting[1])
           THEN /\ CONNECTOR_CONFIGURATION \in DictKeys(reg.params)
                /\ DictGet(reg.params, CONNECTOR_CONFIGURATION) = reg.setting[1].config_keys
                /\ DictKeys(reg.params) =
                       DictKeys(SuppliedKeys)
                       \cup {TRADING_PAIRS, TRADING_REQUIRED, CLIENT_CONFIG_MAP,
                             CONNECTOR_CONFIGURATION}
           ELSE DictKeys(reg.params) =
                    DictKeys(SuppliedKeys)
                    \cup {TRADING_PAIRS, TRADING_REQUIRED, CLIENT_CONFIG_MAP}

\* A descriptor that requests no passthrough was resolved with two api keys.
CentralizedParametersWitness ==
    /\ CentralizedResolved
    /\ Len(SuppliedKeys) = 2
    /\ ~RequestsPassthrough(reg.setting[1])
    /\ reg.trading_required

\* The last call was conn_init_parameters of a descriptor of a gateway type.
GatewayResolved == ResolvedParams /\ reg.setting[1].type \in GatewayTypes

\* The stored connection specs whose market name is that of the descriptor.
StoredSpecsOf(self) ==
    {gateway_connections[j] : j \in
        {i \in DOMAIN gateway_connections :
            GetMarketNameFromConnectorSpec(gateway_connections[i]) = self.name}}

\* C26: conn_init_parameters of a descriptor of a gateway type ends the same
\* way and with the same parameters whatever api keys it is given; when it
\* returns, connector_name, chain, network and address are those of a stored
\* connection spec of the descriptor's market name, a CLOB type carries
\* api_data_source and no additional_spenders, and another gateway type
\* carries the additional_spenders of the spec and no api_data_source.
GatewayParametersIgnoreApiKeys ==
    GatewayResolved =>
        LET self == reg.setting[1] IN
        /\ \A api_keys \in ApiKeyBundles :
               ConnInitParameters(gateway_connections, self, reg.trading_pairs,
                                  reg.trading_required, api_keys, "client_config_map")
               = ConnInitParameters(gateway_connections, self, reg.trading_pairs,
                                    reg.trading_required, reg.api_keys,
                                    "client_config_map")
        /\ \A i \in DOMAIN SuppliedKeys :
               SuppliedKeys[i][1] \notin DictKeys(reg.params)
        /\ reg.outcome = "returned" =>
               /\ \E spec \in StoredSpecsOf(self) :
                      /\ DictGet(reg.params, <<"connector", "_", "name">>) = spec.connector
                      /\ DictGet(reg.params, <<"chain">>) = spec.chain
                      /\ DictGet(reg.params, <<"network">>) = spec.network
                      /\ DictGet(reg.params, <<"address">>) = spec.wallet_address
                      /\ self.type \notin {<<"CLOB", "_", "SPOT">>, <<"CLOB", "_", "PERP">>}
                             => DictGet(reg.params, <<"additional", "_", "spenders">>)
                                    = spec.additional_spenders[1]
               /\ IF self.type \in {<<"CLOB", "_", "SPOT">>, <<"CLOB", "_", "PERP">>}
                  THEN /\ <<"api", "_", "data", "_", "source">> \in DictKeys(reg.params)
                       /\ <<"additional", "_", "spenders">> \notin DictKeys(reg.params)
                  ELSE /\ <<"additional", "_", "spenders">> \in DictKeys(reg.params)
                       /\ <<"api", "_", "data", "_", "source">> \notin DictKeys(reg.params)

\* A CLOB descriptor was resolved with two api keys and the call returned.
GatewayParametersWitness ==
    /\ GatewayResolved
    /\ reg.outcome = "returned"
    /\ reg.setting[1].type = <<"CLOB", "_", "SPOT">>
    /\ Len(SuppliedKeys) = 2

\* The types conn_init_parameters has a variant for: a centralized exchange or
\* its sub-domain, and the gateway variants AMM, AMM_LP, CLOB_SPOT, CLOB_PERP.
ParameterVariants ==
    {<<"Exchange">>, <<"Derivative">>, <<"AMM">>, <<"AMM", "_", "LP">>,
     <<"CLOB", "_", "SPOT">>, <<"CLOB", "_", "PERP">>}

\* The types module_name has a variant for: those that are not of the gateway
\* and the gateway types named after AMM or CLOB.
ModuleVariants ==
    {<<"Exchange">>, <<"Derivative">>, <<"Connector">>}
    \cup {type \in GatewayTypes : Contains(type, <<"AMM">>) \/ Contains(type, <<"CLOB">>)}

\* C27: conn_init_parameters and module_name of a descriptor whose type is
\* not one of the variants of that operation end with an error, not with a
\* result.
VariantDispatchExhaustive ==
    /\ (ResolvedParams /\ reg.setting[1].type \notin ParameterVariants)
           => reg.outcome # "returned"
    /\ (reg.call = "module_name" /\ reg.setting # <<>>
            /\ reg.setting[1].type \notin ModuleVariants)
           => reg.outcome # "returned"

\* C28: create_connector_settings ends with an error whenever discovery is to
\* make two entries under one name, be they of connector directories, of
\* sub-domains a connector declares or of gateway connections.
CollisionsFatal ==
    (reg.call = "create_connector_settings"
        /\ \E n \in DiscoveryNames : EntriesNamed(n) > 1)
        => reg.outcome # "returned"

\* The registry a call of update_connector_config_keys works on: the one
\* before the call, which get_connector_settings discovers first if it is
\* empty.
RegistryUpdated ==
    GetConnectorSettings(reg.before, connector_dirs, gateway_connections).settings

NoStoredSpec(market_name) ==
    \A j \in DOMAIN gateway_connections :
        GetMarketNameFromConnectorSpec(gateway_connections[j]) # market_name

\* get_connector_spec_from_market_name finds no connection spec for the name.
NoSpecFound(market_name) ==
    \A r \in GetConnectorSpecFromMarketName(gateway_connections, market_name) :
        r.outcome = "returned" /\ r.spec = <<>>

\* C30: a lookup of something absent returns an absent result and does not
\* raise: get_connector_config_keys of a name that is not in the registry,
\* get_connector_spec and get_connector_spec_from_market_name of a market
\* name with no stored connection spec, and conn_init_parameters of a gateway
\* descriptor for which no connection spec is found.
AbsentLookupsReturnAbsent ==
    /\ (reg.call = "get_connector_config_keys"
            /\ reg.name \notin DictKeys(all_connector_settings))
           => (reg.outcome = "returned" /\ reg.config_keys = <<>>)
    /\ (reg.call \in {"get_connector_spec", "get_connector_spec_from_market_name"}
            /\ NoStoredSpec(reg.name))
           => (reg.outcome = "returned" /\ reg.spec = <<>>)
    /\ (GatewayResolved /\ NoSpecFound(reg.name)) => reg.outcome = "returned"

----------------------------------------------------------------------------
\* The decrypt_all pass that the last successful login scheduled has
\* completed: its call_async task has run and its thread has returned.
LastPassCompleted(n, t, k) == k = 0 /\ n >= 1 /\ t[n] = "returned"

\* C31: wait_til_decryption_done returns to a caller, at once or when it is
\* resumed, only when the decrypt_all pass scheduled by the last successful
\* login has completed.
WaitSeesPassOfLogin ==
    [][\A c \in Callers :
           (caller[c] \in {"idle", "waiting"} /\ caller'[c] \in {"returned", "resumed"})
               => LastPassCompleted(nitems', tpc', calls')]_vars

----------------------------------------------------------------------------
\* The loop of the scheduler with the history of its sleeps: `throttle` is
\* "due" when the loop has finished an item (set_result, set_exception or the
\* swallowed InvalidStateError) and has not completed the sleep that follows,
\* "slept" when it has, and "interrupted" when the loop task was cancelled
\* while the sleep was due.
ThrottleFrame == UNCHANGED <<vaultVars, storeVars, codecVars, registryVars, tloaded>>

LoopResolve ==
    /\ Resolve
    /\ throttle' = IF op[cur] = "cancelled" THEN throttle ELSE "due"
    /\ ThrottleFrame

LoopTimeout == Timeout /\ throttle' = "due" /\ ThrottleFrame

LoopSleep == Sleep /\ throttle' = "slept" /\ ThrottleFrame

LoopStop ==
    /\ Stop
    /\ throttle' = IF throttle = "due" THEN "interrupted" ELSE throttle
    /\ ThrottleFrame

LoopStart ==
    /\ Start
    /\ throttle' = IF throttle = "due" THEN "interrupted" ELSE throttle
    /\ ThrottleFrame

\* The end of a function whose future was cancelled is left out: it changes
\* nothing the loop reads.
ThrottleNext ==
    \/ Submit /\ UNCHANGED clientVars
    \/ CallerCancel /\ UNCHANGED clientVars
    \/ Get /\ UNCHANGED clientVars
    \/ OpFinish /\ UNCHANGED clientVars
    \/ LoopResolve
    \/ LoopTimeout
    \/ LoopSleep
    \/ LoopStop
    \/ LoopStart

ThrottleSpec == Init /\ [][ThrottleNext]_vars

\* The loop takes an item off the queue.
Dequeues == Len(dequeued') > Len(dequeued)

\* C32 as stated: whenever the loop dequeues an item, no sleep is due or was
\* interrupted: after the last item it finished with a result, a failure or a
\* timeout it has completed a sleep.
ThrottleBetweenItems ==
    [][Dequeues => throttle \in {"none", "slept"}]_vars

\* C32: whenever the loop dequeues an item, then after the last item finished
\* with a result, a failure or a timeout a sleep was completed, unless the
\* loop task was cancelled by stop() or start() while that sleep was due.
ThrottleUnlessStopped ==
    [][(Dequeues /\ throttle # "interrupted") => throttle \in {"none", "slept"}]_vars

\* The loop has dequeued a second item after the sleep that followed the
\* timeout of the first.
ThrottleWitness ==
    /\ Len(dequeued) = 2
    /\ pc = "await"
    /\ fut[dequeued[1]] = "timeout"
    /\ throttle = "slept"

----------------------------------------------------------------------------
\* The entries of the registry the call worked on that are named n.
EntriesOf(n) ==
    {reg.before[i][2] : i \in {j \in DOMAIN reg.before : reg.before[j][1] = n}}

\* The descriptor the call was made on uses no gateway connector.
NonGatewayCall(call) ==
    /\ reg.call = call
    /\ ~UsesGatewayGenericConnector(reg.setting[1])

\* C33. Sub-domain module resolution: module_path() and class_name() of a
\* descriptor that uses no gateway connector return, and what they return is
\* what they return for every descriptor of the registry with the same base
\* name and type; for a sub-domain it is what they return for its parent.
SubDomainModuleResolution ==
    /\ NonGatewayCall("module_path") =>
           /\ reg.outcome = "returned"
           /\ \A t \in UNION {EntriesOf(reg.before[i][1]) : i \in DOMAIN reg.before} :
                  (/\ ~UsesGatewayGenericConnector(t)
                   /\ \/ (BaseName(t) = BaseName(reg.setting[1]) /\ t.type = reg.setting[1].type)
                      \/ (reg.setting[1].is_sub_domain /\ <<t.name>> = reg.setting[1].parent_name))
                      => ModulePath(gateway_connections, t)
                             = {[outcome |-> "returned", value |-> reg.path]}
    /\ NonGatewayCall("class_name") =>
           /\ reg.outcome = "returned"
           /\ \A t \in UNION {EntriesOf(reg.before[i][1]) : i \in DOMAIN reg.before} :
                  (/\ ~UsesGatewayGenericConnector(t)
                   /\ \/ (BaseName(t) = BaseName(reg.setting[1]) /\ t.type = reg.setting[1].type)
                      \/ (reg.setting[1].is_sub_domain /\ <<t.name>> = reg.setting[1].parent_name))
                      => ClassName(gateway_connections, t)
                             = {[outcome |-> "returned", value |-> reg.class_name]}

\* module_path() of the sub-domain foo_us returned the path of the module of
\* foo while foo is in the registry.
SubDomainModuleWitness ==
    /\ NonGatewayCall("module_path")
    /\ reg.setting[1].is_sub_domain
    /\ reg.name = foo_us
    /\ EntriesOf(foo) # {}
    /\ reg.path = <<"hummingbot", ".", "connector", ".", "exchange", ".", "foo", ".",
                    "foo", "_", "exchange">>

----------------------------------------------------------------------------
(***************************************************************************)
(* Saving a secret while decrypt_all runs.  decrypt_all runs on a thread   *)
(* of the executor, update_secure_config on the thread of the event loop:  *)
(* the statement                                                           *)
(*   cls._secure_configs[name] = load_connector_config_map_from_file(path) *)
(* reads and decrypts the file first and stores the bundle afterwards, and *)
(* the other thread can run in between.                                    *)
(***************************************************************************)

\* load_connector_config_map_from_file(file_path) on the thread of item i: the
\* right-hand side of the assignment of decrypt_connector_config.
DecryptLoad ==
    \E i \in Items :
        /\ tpc[i] = "load"
        /\ tfiles[i] # <<>>
        /\ tloaded[i] = "none"
        /\ LET r == LoadConnectorConfigMapFromFile(files[Head(tfiles[i])])
           IN  IF r.ok
               THEN /\ tloaded' = [tloaded EXCEPT ![i] = r.bundle]
                    /\ UNCHANGED tpc
                    /\ UNCHANGED schedVars
               ELSE /\ tpc' = [tpc EXCEPT ![i] = "raised"]
                    /\ ThreadEnd(i, "raised")
                    /\ UNCHANGED tloaded
        /\ UNCHANGED <<verification, files, secrets_manager, secure_configs,
                       decryption_done, caller, calls, tfiles, logins, loginPw,
                       loginResult>>
        /\ UNCHANGED <<storeVars, codecVars, registryVars, throttle>>

\* cls._secure_configs[connector_name] = <the bundle loaded>, on the thread of
\* item i.
DecryptStore ==
    \E i \in Items :
        /\ tpc[i] = "load"
        /\ tloaded[i] # "none"
        /\ secure_configs' = [secure_configs EXCEPT ![Head(tfiles[i])] = tloaded[i]]
        /\ tfiles' = [tfiles EXCEPT ![i] = Tail(tfiles[i])]
        /\ tloaded' = [tloaded EXCEPT ![i] = "none"]
        /\ UNCHANGED <<verification, files, secrets_manager, decryption_done, caller,
                       calls, tpc, logins, loginPw, loginResult>>
        /\ UNCHANGED <<schedVars, storeVars, codecVars, registryVars, throttle>>

\* Some decrypt_all pass is scheduled or on its way.
PassRunning ==
    \/ calls > 0
    \/ \E i \in Items : tpc[i] \notin {"none", "returned", "raised"}

\* update_secure_config called while a decrypt_all pass runs.
SaveDuringPass == PassRunning /\ SaveSecret

\* Logins, the threads of their decrypt_all passes, and a caller that builds
\* config objects and saves them while a pass runs.
SaveNext ==
    \/ Login /\ UNCHANGED <<storeVars, codecVars, registryVars, watchVars>>
    \/ RunCall /\ UNCHANGED <<storeVars, codecVars, registryVars, watchVars>>
    \/ DecryptClearConfigs /\ UNCHANGED <<storeVars, codecVars, registryVars, watchVars>>
    \/ DecryptClearEvent /\ UNCHANGED <<storeVars, codecVars, registryVars, watchVars>>
    \/ DecryptList /\ UNCHANGED <<storeVars, codecVars, registryVars, watchVars>>
    \/ DecryptLoad
    \/ DecryptStore
    \/ DecryptSet /\ UNCHANGED <<storeVars, codecVars, registryVars, watchVars>>
    \/ last.n < MaxCalls /\ NewConfig
    \/ last.n < MaxCalls /\ SaveDuringPass

\* The vault before its first login, with secret files that decrypt.
SaveSpecInit ==
    /\ SchedInit
    /\ \E disk \in [Connectors -> {"absent", "ok"}] :
        VaultInit(disk, StorePasswordVerification(1, 1, 1))
    /\ StoreInit
    /\ codec = NoCodec
    /\ RegistryInit
    /\ WatchInit

SaveSpec == SaveSpecInit /\ [][SaveNext]_vars

\* The secret values of the cache entry of connector c: those of the object
\* the entry refers to, or the values decrypt_all loaded.
CachedBundle(c) ==
    IF secure_configs[c] \in ObjIds THEN objects[secure_configs[c]].bundle
    ELSE secure_configs[c]

\* C34. Save during decrypt: when the last call of the store is a save that
\* returned while a decrypt_all pass was running and every pass has
\* completed, the cache entry of the saved connector holds the configuration
\* that was saved, which is what the secret file holds.
SaveDuringDecryptKept ==
    (/\ last.name = "save"
     /\ last.outcome = "returned"
     /\ ~PassRunning)
        => CachedBundle(last.connector) = files[last.connector]

----------------------------------------------------------------------------
\* Logins whose decrypt_all passes run on threads of the pool while the loop
\* of the scheduler awaits their futures, with the 30 s timeout, and stop().
TimeoutNext ==
    \/ Login /\ UNCHANGED <<storeVars, codecVars, registryVars, watchVars>>
    \/ RunCall /\ UNCHANGED <<storeVars, codecVars, registryVars, watchVars>>
    \/ DecryptClearConfigs /\ UNCHANGED <<storeVars, codecVars, registryVars, watchVars>>
    \/ DecryptClearEvent /\ UNCHANGED <<storeVars, codecVars, registryVars, watchVars>>
    \/ DecryptList /\ UNCHANGED <<storeVars, codecVars, registryVars, watchVars>>
    \/ DecryptFile /\ UNCHANGED <<storeVars, codecVars, registryVars, watchVars>>
    \/ DecryptSet /\ UNCHANGED <<storeVars, codecVars, registryVars, watchVars>>
    \/ Get /\ UNCHANGED clientVars
    \/ Resolve /\ UNCHANGED clientVars
    \/ Timeout /\ UNCHANGED clientVars
    \/ Sleep /\ UNCHANGED clientVars
    \/ Stop /\ UNCHANGED clientVars

TimeoutSpec == SaveSpecInit /\ [][TimeoutNext]_vars

\* The thread of item i takes a step of decrypt_all.
ThreadSteps(i) ==
    /\ tpc[i] # "none"
    /\ tpc'[i] # tpc[i] \/ tfiles'[i] # tfiles[i]

\* C35 as claimed: once the handle of a call has been resolved with a timeout
\* failure, the function changes no shared state any more: the decrypt_all
\* pass neither modifies the cache nor changes the completion signal.
TimedOutCallNoEffect ==
    [][\A i \in Items :
           (fut[i] = "timeout" /\ ThreadSteps(i))
               => /\ secure_configs' = secure_configs
                  /\ decryption_done' = decryption_done]_vars

\* C35. Timed-out call: once the handle of a call has been resolved with a
\* timeout failure, the handle keeps the timeout failure and the future of
\* the off-loaded function stays cancelled, whatever the function does
\* afterwards on its thread: its outcome is delivered to nobody.
TimedOutCallDiscarded ==
    [][\A i \in Items :
           (fut[i] = "timeout" /\ kind[i] = "func")
               => /\ fut'[i] = "timeout"
                  /\ op[i] = "timedout"
                  /\ op'[i] = "timedout"]_vars

\* The decrypt_all pass of the only login timed out and then ran to its end:
\* it has set the completion signal and filled the cache.
TimedOutCallWitness ==
    /\ nitems = 1
    /\ fut[1] = "timeout"
    /\ tpc[1] = "returned"
    /\ 1 \notin executing
    /\ decryption_done
    /\ \E c \in Connectors : secure_configs[c] # "none"

----------------------------------------------------------------------------
\* C36. Parameter resolution does not modify its inputs: after
\* conn_init_parameters the api_keys mapping of the caller is what it was
\* before the call, for a descriptor of every type, and a second call with the
\* same arguments ends as the first did.
ResolutionKeepsInputs ==
    ResolvedParams =>
        /\ reg.kept = reg.api_keys
        /\ ConnInitParameters(gateway_connections, reg.setting[1], reg.trading_pairs,
                              reg.trading_required, reg.kept, "client_config_map")
           = ConnInitParameters(gateway_connections, reg.setting[1], reg.trading_pairs,
                                reg.trading_required, reg.api_keys, "client_config_map")

----------------------------------------------------------------------------
\* reset_connector_config_keys was called for an entry of the registry.
ResetOfEntry ==
    /\ reg.call = "reset_connector_config_keys"
    /\ reg.setting # <<>>

\* C37. Reset of config keys is total: reset_connector_config_keys of a
\* connector of the registry completes; an entry with config keys has them
\* replaced by a freshly constructed object of the same class, and the rest
\* of the registry is as before; for an entry without config keys (a gateway
\* entry) the registry is as before.
ResetConfigKeysTotal ==
    ResetOfEntry =>
        /\ reg.outcome = "returned"
        /\ IF reg.setting[1].config_keys = <<>>
           THEN all_connector_settings = reg.before
           ELSE all_connector_settings
                    = DictSet(reg.before, reg.name,
                              [reg.setting[1] EXCEPT
                                   !.config_keys = <<Construct(reg.setting[1].config_keys[1])>>])

----------------------------------------------------------------------------
\* The gateway connection store from its empty state: callers that upsert
\* connection specs and look them up.
UpsertNext ==
    \/ Upsert
    \/ LookupSpec
    \/ LookupStored

UpsertSpec == Init /\ [][UpsertNext]_vars

\* Two specs are of the same connector, chain and network.
SameConnection(a, b) ==
    /\ a.connector = b.connector
    /\ a.chain = b.chain
    /\ a.network = b.network

\* C38. Gateway connection store uniqueness: after any upserts from the empty
\* store the list holds at most one spec for a connector, chain and network;
\* after an upsert get_connector_spec of its connector, chain and network
\* returns the spec upserted, and the specs of the other connections are the
\* ones there were, in their order.
ConnectionStoreUnique ==
    /\ \A i, j \in DOMAIN gateway_connections :
           (i # j) => ~SameConnection(gateway_connections[i], gateway_connections[j])
    /\ reg.call = "upsert_connector_spec" =>
           LET new == reg.spec[1]
               Other(s) == ~SameConnection(s, new)
           IN  /\ GetConnectorSpec(gateway_connections, new.connector, new.chain,
                                   new.network) = <<new>>
               /\ SelectSeq(gateway_connections, Other) = SelectSeq(reg.conf, Other)

\* An upsert has replaced the first of two stored specs by one with another
\* wallet.
ConnectionStoreWitness ==
    /\ reg.call = "upsert_connector_spec"
    /\ Len(reg.conf) = 2
    /\ Len(gateway_connections) = 2
    /\ SameConnection(reg.conf[1], reg.spec[1])
    /\ reg.conf[1].wallet_address # reg.spec[1].wallet_address
    /\ gateway_connections[1] = reg.spec[1]

----------------------------------------------------------------------------
\* get_connector_spec_from_market_name was called with the market name of a
\* stored spec whose chain is supported.
StoredLookup ==
    /\ reg.call = "get_connector_spec_from_market_name"
    /\ reg.stored # <<>>
    /\ reg.stored[1].chain \in SUPPORTED_CHAINS

\* C39. Market-name round trip: get_connector_spec_from_market_name of the
\* market name of a stored spec whose chain is supported returns that spec,
\* whatever the names of its connector and network, and whatever the order
\* in which the supported chains are gone through.
MarketNameRoundTrip ==
    StoredLookup =>
        /\ reg.outcome = "returned"
        /\ reg.spec = reg.stored

====
